---- MODULE Spec2Model ----
(***************************************************************************)
(* The live-document registry of render/live_parser/src/liveregistry.rs:   *)
(* parse_live_file (registration, dirty marking, dep_order repair) and     *)
(* expand_all_documents (the dep_order loop, walk_node, resolve_id,        *)
(* copy_recur, write_or_add_node).                                         *)
(*                                                                         *)
(* Indices (file ids, levels, node indices, string offsets) are 0-based as *)
(* in the Rust source; a vector v is a sequence and v[i] is At(v, i).      *)
(***************************************************************************)
EXTENDS Integers, Sequences, FiniteSets, TLC

\* Number of stack frames available to the recursion of mark_dirty.
MaxCallDepth == 6

\* Number of parse_live_file calls of one run.
MaxParses == 4

\* Number of base-class pointers find_component_origin follows before the walk
\* counts as not ending.
MaxChain == 4

MaxFrames == 2

MaxItems == 2

MaxOrder == 4

VARIABLES
    file_ids,                 \* LiveRegistry.file_ids: file name -> FileId
    crate_module_to_file_id,  \* LiveRegistry.crate_module_to_file_id
    live_files,               \* LiveRegistry.live_files: Vec<LiveFile>
    dep_order,                \* LiveRegistry.dep_order: Vec<(CrateModule, TokenId)>
    dep_graph,                \* LiveRegistry.dep_graph
    expanded,                 \* LiveRegistry.expanded: Vec<LiveDocument>
    errors,                   \* the caller's Vec<LiveError> of expand_all_documents
    pc,                       \* "idle", "expand", "panicked", "parse_panicked", "stack_overflow"
    pos,                      \* position of the dep_order loop of expand_all_documents
    last,                     \* the operation that produced this state
    parses,                   \* parse_live_file calls made so far
    session                   \* the code editor's Session (src/code_editor/src/state.rs)

vars == <<file_ids, crate_module_to_file_id, live_files, dep_order, dep_graph,
          expanded, errors, pc, pos, last, parses, session>>

(***************************************************************************)
(* Vectors                                                                 *)
(***************************************************************************)
At(v, i) == v[i + 1]

InRange(v, i) == i >= 0 /\ i < Len(v)

RemoveAt(v, i) == SubSeq(v, 1, i) \o SubSeq(v, i + 2, Len(v))

InsertAt(v, i, x) == SubSeq(v, 1, i) \o <<x>> \o SubSeq(v, i + 1, Len(v))

SetAt(v, i, x) == [v EXCEPT ![i + 1] = x]

Elems(v) == {v[i] : i \in 1..Len(v)}

RECURSIVE Concat(_)
Concat(vv) == IF vv = <<>> THEN <<>> ELSE Head(vv) \o Concat(Tail(vv))

SetMin(S) == CHOOSE x \in S : \A y \in S : x <= y

SetMax(S) == CHOOSE x \in S : \A y \in S : y <= x

(***************************************************************************)
(* Ids, pointers, nodes, documents                                         *)
(***************************************************************************)
NoCrateModule == <<"", "">>

CrateModule(crate_id, module_id) == <<crate_id, module_id>>

IdEmpty == [k |-> "Empty", id |-> "", file |-> 0, level |-> 0, index |-> 0, count |-> 0]

IdSingle(i) == [IdEmpty EXCEPT !.k = "Single", !.id = i]

IdMulti(start, n) == [IdEmpty EXCEPT !.k = "Multi", !.index = start, !.count = n]

LocalNodePtr(l, i) == [level |-> l, index |-> i]

IdNodePtr(f, ptr) ==
    [IdEmpty EXCEPT !.k = "Ptr", !.file = f, !.level = ptr.level, !.index = ptr.index]

\* LiveScopeTarget::Local has full = FALSE; LiveScopeTarget::Full carries the file id.
ScopeLocal(ptr) == [full |-> FALSE, file |-> 0, level |-> ptr.level, index |-> ptr.index]

ScopeFull(f, ptr) == [full |-> TRUE, file |-> f, level |-> ptr.level, index |-> ptr.index]

LiveScopeItem(i, target) == [id |-> i, target |-> target]

ValueNone ==
    [t |-> "None", id |-> IdEmpty, start |-> 0, count |-> 0,
     sstart |-> 0, scount |-> 0, n |-> 0, cm |-> NoCrateModule]

VInt(n) == [ValueNone EXCEPT !.t = "Int", !.n = n]

VBool(n) == [ValueNone EXCEPT !.t = "Bool", !.n = n]

VString(start, n) == [ValueNone EXCEPT !.t = "String", !.start = start, !.count = n]

VIdPack(i) == [ValueNone EXCEPT !.t = "IdPack", !.id = i]

VClass(class, start, n) ==
    [ValueNone EXCEPT !.t = "Class", !.id = class, !.start = start, !.count = n]

VCall(target, start, n) ==
    [ValueNone EXCEPT !.t = "Call", !.id = target, !.start = start, !.count = n]

VObject(start, n) == [ValueNone EXCEPT !.t = "Object", !.start = start, !.count = n]

VArray(start, n) == [ValueNone EXCEPT !.t = "Array", !.start = start, !.count = n]

VFn(ts, tc, ss, sc) ==
    [ValueNone EXCEPT !.t = "Fn", !.start = ts, !.count = tc, !.sstart = ss, !.scount = sc]

VVarDef(ts, tc, ss, sc) ==
    [ValueNone EXCEPT !.t = "VarDef", !.start = ts, !.count = tc, !.sstart = ss, !.scount = sc]

VUse(cm) == [ValueNone EXCEPT !.t = "Use", !.cm = cm]

\* TokenId: the file the token was lexed for and its number in that file.
TokenId(f, n) == [file |-> f, tok |-> n]

TokenIdDefault == TokenId(0, 0)

LiveNode(tok, id_pack, value) == [token_id |-> tok, id_pack |-> id_pack, value |-> value]

LiveError(message, tok) == [message |-> message, token_id |-> tok]

\* LiveDocument::new(): an empty document, to be compiled.
NewDocument ==
    [recompile |-> TRUE, nodes |-> << <<>> >>, multi_ids |-> <<>>,
     strings |-> <<>>, tokens |-> <<>>, scopes |-> <<>>]

\* LiveDocument::fetch_crate_module: `crate` names the importing file's crate.
fetch_crate_module(cm, in_crate) ==
    IF cm[1] = "crate" THEN CrateModule(in_crate, cm[2]) ELSE cm

is_baseclass_None(id) == FALSE

is_baseclass(id) ==
    id \in {IdSingle("Component"), IdSingle("Enum"), IdSingle("Struct"),
            IdSingle("Shader"), IdSingle("Variant")}

IdSelf == IdSingle("Self")

Component == IdSingle("Component")

(***************************************************************************)
(* parse_live_file                                                         *)
(***************************************************************************)
\* Vec::iter().position(|v| v.0 == cm), 1-based; 0 stands for None.
Position(order, cm) ==
    IF \E i \in 1..Len(order) : order[i].cm = cm
    THEN SetMin({i \in 1..Len(order) : order[i].cm = cm})
    ELSE 0

DepEntry(cm, tok) == [cm |-> cm, token_id |-> tok]

\* A repair that puts an import that is not in the order at its end.
RepairOrder_Append(order, own, cm, tok) ==
    IF Position(order, cm) # 0 THEN order ELSE Append(order, DepEntry(cm, tok))

\* A repair that inserts the import before the importer without removing the
\* entry it has further on.
RepairOrder_NoRemove(order, own, cm, tok) ==
    IF Position(order, cm) # 0 /\ Position(order, cm) <= Position(order, own) THEN order
    ELSE InsertAt(order, Position(order, own) - 1, DepEntry(cm, tok))

\* One Use node of the dep_order repair loop.
RepairOrder(order, own, cm, tok) ==
    LET self_index == Position(order, own)
        other_index == Position(order, cm)
    IN  IF other_index # 0
        THEN IF other_index > self_index
             THEN InsertAt(RemoveAt(order, other_index - 1), self_index - 1, DepEntry(cm, tok))
             ELSE order
        ELSE InsertAt(order, self_index - 1, DepEntry(cm, tok))

\* The nodes of a document in the order of `for nodes in document.nodes { for node in nodes`.
AllNodes(document) == Concat(document.nodes)

RECURSIVE ScanUses(_, _, _, _, _)
\* The loop over the Use nodes: st = [order, set].
ScanUses(st, nodes, i, own, crate_id) ==
    IF i > Len(nodes) THEN st
    ELSE LET node == nodes[i]
         IN  IF node.value.t = "Use"
             THEN LET cm == fetch_crate_module(node.value.cm, crate_id)
                  IN  ScanUses([order |-> RepairOrder(st.order, own, cm, node.token_id),
                                set |-> st.set \cup {cm}],
                               nodes, i + 1, own, crate_id)
             ELSE ScanUses(st, nodes, i + 1, own, crate_id)

\* mark_dirty without the recursion: cm and the modules that import it directly.
mark_dirty_DirectOnly(cm, st, cm2f, graph, depth) ==
    LET files == {cm2f[c] : c \in ({cm} \cup {d \in DOMAIN graph : cm \in graph[d]})
                                   \cap DOMAIN cm2f}
    IN  [st EXCEPT !.expanded = [i \in DOMAIN @ |->
                                    IF i - 1 \in files
                                    THEN [@[i] EXCEPT !.recompile = TRUE]
                                    ELSE @[i]]]

RECURSIVE mark_dirty(_, _, _, _, _)
RECURSIVE mark_dirty_each(_, _, _, _, _)
\* mark_dirty: st = [expanded, overflow]; depth counts the frames of the recursion.
mark_dirty(cm, st, cm2f, graph, depth) ==
    IF st.overflow THEN st
    ELSE IF depth > MaxCallDepth THEN [st EXCEPT !.overflow = TRUE]
    ELSE LET marked ==
                 IF cm \in DOMAIN cm2f
                 THEN [st EXCEPT !.expanded[cm2f[cm] + 1].recompile = TRUE]
                 ELSE st
             dirty == {c \in DOMAIN graph : cm \in graph[c]}
         IN  mark_dirty_each(dirty, marked, cm2f, graph, depth)

mark_dirty_each(dirty, st, cm2f, graph, depth) ==
    IF dirty = {} \/ st.overflow THEN st
    ELSE LET d == CHOOSE c \in dirty : TRUE
         IN  mark_dirty_each(dirty \ {d}, mark_dirty(d, st, cm2f, graph, depth + 1),
                             cm2f, graph, depth)

\* An insert that keeps the value of a key that is already there.
MapInsert_KeepOld(f, key, value) ==
    [x \in DOMAIN f \cup {key} |-> IF x \in DOMAIN f THEN f[x] ELSE value]

\* Extends the function f by key |-> value (HashMap::insert).
MapInsert(f, key, value) ==
    [x \in DOMAIN f \cup {key} |-> IF x = key THEN value ELSE f[x]]

LiveFile(cm, file, document) == [crate_module |-> cm, file |-> file, document |-> document]

\* lex(source.chars(), file_id): the tokens of the parsed document carry file_id.
LexedFor(parsed, file_id) ==
    [parsed EXCEPT !.nodes = [l \in DOMAIN parsed.nodes |->
                                [i \in DOMAIN parsed.nodes[l] |->
                                    [parsed.nodes[l][i] EXCEPT !.token_id.file = file_id]]]]

parse_live_file(file, crate_id, module_id, source) ==
    LET is_new_file_id == file \notin DOMAIN file_ids
        file_id == IF is_new_file_id THEN Len(live_files) ELSE file_ids[file]
        document == LexedFor(source.document, file_id)
        own_crate_module == CrateModule(crate_id, module_id)
        is_new_cm == Position(dep_order, own_crate_module) = 0
        marked == IF is_new_cm
                  THEN [expanded |-> expanded, overflow |-> FALSE]
                  ELSE mark_dirty(own_crate_module, [expanded |-> expanded, overflow |-> FALSE],
                                  crate_module_to_file_id, dep_graph, 1)
        order0 == IF is_new_cm
                  THEN Append(dep_order, DepEntry(own_crate_module, TokenIdDefault))
                  ELSE dep_order
        scanned == ScanUses([order |-> order0, set |-> {}], AllNodes(document), 1,
                            own_crate_module, crate_id)
        live_file == LiveFile(own_crate_module, file, document)
    IN  /\ pc = "idle"
        /\ parses < MaxParses
        /\ parses' = parses + 1
        /\ last' = [op |-> "parse", cm |-> own_crate_module, again |-> FALSE]
        /\ pos' = 0
        /\ errors' = errors
        /\ session' = session
        /\ IF source.error      \* Err(msg) => panic!("Lex error ..") / panic!("Parse error ..")
           THEN /\ pc' = "parse_panicked"
                /\ UNCHANGED <<file_ids, crate_module_to_file_id, live_files,
                               dep_order, dep_graph, expanded>>
           ELSE IF marked.overflow
           THEN /\ pc' = "stack_overflow"
                /\ UNCHANGED <<file_ids, crate_module_to_file_id, live_files,
                               dep_order, dep_graph, expanded>>
           ELSE /\ pc' = "idle"
                /\ dep_order' = scanned.order
                /\ dep_graph' = MapInsert(dep_graph, own_crate_module, scanned.set)
                /\ crate_module_to_file_id' =
                       MapInsert(crate_module_to_file_id, own_crate_module, file_id)
                /\ IF is_new_file_id
                   THEN /\ file_ids' = MapInsert(file_ids, file, file_id)
                        /\ live_files' = Append(live_files, live_file)
                        /\ expanded' = Append(marked.expanded, NewDocument)
                   ELSE /\ file_ids' = file_ids
                        /\ live_files' = SetAt(live_files, file_id, live_file)
                        /\ expanded' = [marked.expanded EXCEPT ![file_id + 1].recompile = TRUE]

(***************************************************************************)
(* LiveDocument (livedocument.rs is not part of the sources at hand: these *)
(* operators follow the specification's sections 3, 4.2 and 4.4)           *)
(***************************************************************************)
LevelLen(doc, level) == IF level < Len(doc.nodes) THEN Len(At(doc.nodes, level)) ELSE 0

get_level_len(doc, level) == LevelLen(doc, level)

NodeAt(doc, level, index) == At(At(doc.nodes, level), index)

HasNode(doc, level, index) == level >= 0 /\ index >= 0 /\ index < LevelLen(doc, level)

push_node(doc, level, node) ==
    LET nodes == IF level < Len(doc.nodes)
                 THEN doc.nodes
                 ELSE doc.nodes \o [i \in 1..(level + 1 - Len(doc.nodes)) |-> <<>>]
    IN  [doc EXCEPT !.nodes = [nodes EXCEPT ![level + 1] = Append(@, node)]]

\* restart_from: the node levels are emptied, the interning tables are the raw document's.
restart_from(doc, in_doc) ==
    [doc EXCEPT !.nodes = [i \in 1..Len(doc.nodes) |-> <<>>],
                !.multi_ids = in_doc.multi_ids,
                !.strings = in_doc.strings,
                !.tokens = in_doc.tokens,
                !.scopes = <<>>]

RECURSIVE ScanSegments(_, _, _, _, _, _, _)
\* Resolves the segments seg..last_seg of a path as nested class fields, one level
\* per segment, inside the run [start, start + count) of `level`.
\* [found, level, index]
ScanSegments(doc, level, start, count, multi_ids, seg, last_seg) ==
    LET id == IdSingle(At(multi_ids, seg))
        hits == {i \in start..(start + count - 1) :
                    HasNode(doc, level, i) /\ NodeAt(doc, level, i).id_pack = id}
    IN  IF hits = {} THEN [found |-> FALSE, level |-> 0, index |-> 0]
        ELSE LET i == SetMin(hits)
                 node == NodeAt(doc, level, i)
             IN  IF seg = last_seg THEN [found |-> TRUE, level |-> level, index |-> i]
                 ELSE IF node.value.t = "Class"
                 THEN ScanSegments(doc, level + 1, node.value.start, node.value.count,
                                   multi_ids, seg + 1, last_seg)
                 ELSE [found |-> FALSE, level |-> 0, index |-> 0]

\* scan_for_multi_for_expand: the head of the path (segment id_start) is already
\* resolved; the following segments are looked up from [node_start, +node_count).
scan_for_multi_for_expand(doc, level, node_start, node_count, id_start, id_count, multi_ids) ==
    IF id_count < 2 THEN [found |-> FALSE, level |-> 0, index |-> 0]
    ELSE ScanSegments(doc, level, node_start, node_count, multi_ids,
                      id_start + 1, id_start + id_count - 1)

\* LiveDocument::write_or_add_node: [doc, res, index]; res is "Err", "None"
\* (overwritten in place) or "Some" (appended at index).
doc_write_or_add_node(doc, level, node_start, node_count, in_doc, in_node) ==
    LET id == in_node.id_pack
        len == LevelLen(doc, level)
    IN  IF id.k = "Multi"
        THEN LET f == ScanSegments(doc, level, node_start, node_count, in_doc.multi_ids,
                                   id.index, id.index + id.count - 1)
             IN  IF id.count > 0 /\ f.found
                 THEN [doc |-> [doc EXCEPT !.nodes[f.level + 1][f.index + 1] =
                                   LiveNode(in_node.token_id,
                                            IdSingle(At(in_doc.multi_ids, id.index + id.count - 1)),
                                            in_node.value)],
                       res |-> "None", index |-> 0]
                 ELSE [doc |-> doc, res |-> "Err", index |-> 0]
        ELSE LET hits == {i \in node_start..(node_start + node_count - 1) :
                             i < len /\ NodeAt(doc, level, i).id_pack = id}
             IN  IF hits # {}
                 THEN [doc |-> [doc EXCEPT !.nodes[level + 1][SetMin(hits) + 1] = in_node],
                       res |-> "None", index |-> 0]
                 ELSE [doc |-> push_node(doc, level, in_node), res |-> "Some", index |-> len]

(***************************************************************************)
(* expand_all_documents: the scope stack, write_or_add_node, resolve_id    *)
(*                                                                         *)
(* ctx = [out, stack, errors, panic] is what the walk mutates: out_doc,    *)
(* scope_stack, errors, and whether an index or unwrap has panicked.       *)
(* env = [expanded, cm2f, in_crate, in_file_id, in_doc] is what it reads.  *)
(***************************************************************************)
\* The scan of a frame from its oldest item on.
FindInFrame_Oldest(items, i, id) ==
    IF \E j \in 1..i : items[j].id = id
    THEN [found |-> TRUE, target |-> items[SetMin({j \in 1..i : items[j].id = id})].target]
    ELSE [found |-> FALSE, target |-> ScopeLocal(LocalNodePtr(0, 0))]

RECURSIVE FindInFrame(_, _, _)
\* for item in items.iter().rev(): [found, target]
FindInFrame(items, i, id) ==
    IF i = 0 THEN [found |-> FALSE, target |-> ScopeLocal(LocalNodePtr(0, 0))]
    ELSE IF items[i].id = id THEN [found |-> TRUE, target |-> items[i].target]
    ELSE FindInFrame(items, i - 1, id)

RECURSIVE FindInStack(_, _, _)
FindInStack(stack, f, id) ==
    IF f = 0 THEN [found |-> FALSE, target |-> ScopeLocal(LocalNodePtr(0, 0))]
    ELSE LET r == FindInFrame(stack[f], Len(stack[f]), id)
         IN  IF r.found THEN r ELSE FindInStack(stack, f - 1, id)

\* ScopeStack::find_item
find_item(stack, id) == FindInStack(stack, Len(stack), id)

Panic(ctx) == [ctx EXCEPT !.panic = TRUE]

PushError_Replace(ctx, message, tok) == [ctx EXCEPT !.errors = <<LiveError(message, tok)>>]

PushError(ctx, message, tok) == [ctx EXCEPT !.errors = Append(@, LiveError(message, tok))]

\* scope_stack.stack[level].push(item)
PushScope(ctx, level, item) ==
    IF level < Len(ctx.stack)
    THEN [ctx EXCEPT !.stack[level + 1] = Append(@, item)]
    ELSE Panic(ctx)

\* fn write_or_add_node of expand_all_documents, on the result w of
\* out_doc.write_or_add_node(..): match w { Err(..), Ok(Some(index)), Ok(None) }
WriteResult(ctx, w, level, in_node) ==
    IF w.res = "Err" THEN PushError(ctx, "Cannot write node", in_node.token_id)
    ELSE IF w.res = "Some" /\ Len(ctx.stack) - 1 = level /\ in_node.id_pack.k = "Single"
    THEN PushScope([ctx EXCEPT !.out = w.doc], level,
                   LiveScopeItem(in_node.id_pack.id, ScopeLocal(LocalNodePtr(level, w.index))))
    ELSE [ctx EXCEPT !.out = w.doc]

\* fn write_or_add_node of expand_all_documents
write_or_add_node(ctx, level, node_start, node_count, in_doc, in_node) ==
    WriteResult(ctx,
                doc_write_or_add_node(ctx.out, level, node_start, node_count, in_doc, in_node),
                level, in_node)

ResolveOk(has_file, f, ptr) ==
    [ok |-> TRUE, panic |-> FALSE, has_file |-> has_file, file |-> f,
     ptr |-> LocalNodePtr(ptr.level, ptr.index), message |-> ""]

ResolveErr(message) ==
    [ok |-> FALSE, panic |-> FALSE, has_file |-> FALSE, file |-> 0,
     ptr |-> LocalNodePtr(0, 0), message |-> message]

ResolvePanic == [ResolveErr("") EXCEPT !.panic = TRUE]

\* The class found on the scope as the head of a path: the rest of the path is
\* scanned in its body.
ResolveInClass(doc, has_file, f, ptr, id_start, id_count, multi_ids) ==
    IF ~HasNode(doc, ptr.level, ptr.index) THEN ResolvePanic
    ELSE LET head == NodeAt(doc, ptr.level, ptr.index)
         IN  IF head.value.t = "Class"
             THEN LET r == scan_for_multi_for_expand(doc, ptr.level + 1, head.value.start,
                                                     head.value.count, id_start, id_count,
                                                     multi_ids)
                  IN  IF r.found THEN ResolveOk(has_file, f, r)
                      ELSE ResolveErr("Cannot find path")
             ELSE ResolveErr("Property is not a class")

\* A Self-headed path looked up on the scope stack by its second segment.
ResolveSelf_OnScope(id, env, ctx, out_level, out_start) ==
    IF find_item(ctx.stack, At(env.in_doc.multi_ids, id.index + 1)).found
    THEN ResolveOk(FALSE, 0, find_item(ctx.stack, At(env.in_doc.multi_ids, id.index + 1)).target)
    ELSE ResolveErr("Cannot find path")

\* resolve_id, base == id!(Self): the rest of the path is scanned in the
\* entries of out_level from out_start on
ResolveSelf(id, env, ctx, out_level, out_start) ==
    LET out_count == get_level_len(ctx.out, out_level) - out_start
        r == scan_for_multi_for_expand(ctx.out, out_level, out_start, out_count,
                                       id.index, id.count, env.in_doc.multi_ids)
    IN  IF r.found THEN ResolveOk(FALSE, 0, r) ELSE ResolveErr("Cannot find path")

resolve_id(id, env, ctx, out_level, out_start) ==
    IF id.k = "Multi"
    THEN IF ~InRange(env.in_doc.multi_ids, id.index) THEN ResolvePanic
         ELSE
         LET base == At(env.in_doc.multi_ids, id.index)
         IN  IF base = "Self"
             THEN ResolveSelf(id, env, ctx, out_level, out_start)
             ELSE IF is_baseclass(IdSingle(base)) THEN ResolveErr("Cannot use baseclass")
             ELSE LET item == find_item(ctx.stack, base)
                  IN  IF ~item.found THEN ResolveErr("Cannot find item on scope")
                      ELSE IF item.target.full
                      THEN IF ~InRange(env.expanded, item.target.file) THEN ResolvePanic
                           ELSE ResolveInClass(At(env.expanded, item.target.file), TRUE,
                                               item.target.file, item.target,
                                               id.index, id.count, env.in_doc.multi_ids)
                      ELSE ResolveInClass(ctx.out, FALSE, 0, item.target,
                                          id.index, id.count, env.in_doc.multi_ids)
    ELSE IF id.k = "Single" /\ ~is_baseclass(id)
    THEN LET item == find_item(ctx.stack, id.id)
         IN  IF ~item.found THEN ResolveErr("Cannot find item on scope")
             ELSE IF item.target.full THEN ResolveOk(TRUE, item.target.file, item.target)
             ELSE ResolveOk(FALSE, 0, item.target)
    ELSE ResolveErr("Cannot find item on scope")

(***************************************************************************)
(* copy_recur                                                              *)
(***************************************************************************)
\* in_doc: Option<(&LiveDocument, FileId)>; None copies inside out_doc.
SrcNone == [ext |-> FALSE, doc |-> NewDocument, file |-> 0]

SrcSome(doc, f) == [ext |-> TRUE, doc |-> doc, file |-> f]

CopyResult(ctx, res, class) == [ctx |-> ctx, res |-> res, class |-> class]

\* out_doc.strings.push(in_doc.strings[i + string_start]) for i in 0..string_count
CopyStrings(ctx, in_doc, string_start, string_count) ==
    IF string_count > 0 /\ string_start + string_count > Len(in_doc.strings)
    THEN Panic(ctx)
    ELSE [ctx EXCEPT !.out.strings =
                 @ \o SubSeq(in_doc.strings, string_start + 1, string_start + string_count)]

\* The captured scope entries are copied as they are.
clone_scope_Plain(ctx, in_doc, scope_start, scope_count, in_file_id) ==
    [ctx EXCEPT !.out.scopes = @ \o SubSeq(in_doc.scopes, scope_start + 1,
                                           scope_start + scope_count)]

\* clone_scope: a local target of the source document becomes a full pointer.
clone_scope(ctx, in_doc, scope_start, scope_count, in_file_id) ==
    IF scope_count > 0 /\ scope_start + scope_count > Len(in_doc.scopes)
    THEN Panic(ctx)
    ELSE [ctx EXCEPT !.out.scopes =
                 @ \o [i \in 1..scope_count |->
                          LET item == in_doc.scopes[scope_start + i]
                          IN  IF item.target.full THEN item
                              ELSE LiveScopeItem(item.id, ScopeFull(in_file_id, item.target))]]

\* out_doc.tokens.push(in_doc.tokens[i + token_start]) for i in 0..token_count
CopyTokens(ctx, in_doc, token_start, token_count) ==
    IF token_count > 0 /\ token_start + token_count > Len(in_doc.tokens)
    THEN Panic(ctx)
    ELSE [ctx EXCEPT !.out.tokens =
                 @ \o SubSeq(in_doc.tokens, token_start + 1, token_start + token_count)]

\* The copy keeps the span of the document it was copied from.
NewStringStart_Reused(src, nsi, string_start) == string_start

\* let new_string_start = if let Some(..) = in_doc { nsi } else { string_start }
NewStringStart(src, nsi, string_start) == IF src.ext THEN nsi ELSE string_start

\* The copy keeps the id of the node it copies.
NodeId_Kept(node, skip_level_id, skip_level, in_level) == node.id_pack

\* let node_id = if skip_level == in_level { skip_level_id } else { node.id_pack }
NodeId(node, skip_level_id, skip_level, in_level) ==
    IF skip_level = in_level THEN skip_level_id ELSE node.id_pack

PushOut(ctx, level, node) == [ctx EXCEPT !.out = push_node(@, level, node)]

RECURSIVE copy_recur(_, _, _, _, _, _, _)
RECURSIVE CopyChildren(_, _, _, _, _, _, _, _, _)

\* for i in 0..node_count { copy_recur(.., in_level + 1, out_level + 1, i + node_start) }
CopyChildren(ctx, src, skip_level_id, skip_level, in_level, out_level, node_start, node_count, i) ==
    IF i >= node_count \/ ctx.panic THEN ctx
    ELSE CopyChildren(copy_recur(ctx, src, skip_level_id, skip_level, in_level + 1,
                                 out_level + 1, i + node_start).ctx,
                      src, skip_level_id, skip_level, in_level, out_level,
                      node_start, node_count, i + 1)

copy_recur(ctx, src, skip_level_id, skip_level, in_level, out_level, in_index) ==
    LET from == IF src.ext THEN src.doc ELSE ctx.out
    IN  IF ctx.panic THEN CopyResult(ctx, "Noop", IdEmpty)
        ELSE IF ~HasNode(from, in_level, in_index) THEN CopyResult(Panic(ctx), "Noop", IdEmpty)
        ELSE
        LET node == NodeAt(from, in_level, in_index)
            v == node.value
            node_id == NodeId(node, skip_level_id, skip_level, in_level)
            out_start == get_level_len(ctx.out, out_level + 1)
            copied == CopyChildren(ctx, src, skip_level_id, skip_level, in_level, out_level,
                                   v.start, v.count, 0)
        IN  CASE v.t \in {"Call", "Array", "Object"} ->
                   CopyResult(PushOut(copied, out_level,
                                      LiveNode(node.token_id, node_id,
                                               [v EXCEPT !.start = out_start])),
                              "Noop", IdEmpty)
              [] v.t = "Use" -> CopyResult(ctx, "Noop", IdEmpty)
              [] v.t = "Class" ->
                   IF v.id = IdSelf THEN CopyResult(ctx, "Noop", IdEmpty)
                   ELSE CopyResult(IF skip_level # in_level
                                   THEN PushOut(copied, out_level,
                                                LiveNode(node.token_id, node.id_pack,
                                                         [v EXCEPT !.start = out_start]))
                                   ELSE copied,
                                   "IsClass", v.id)
              [] v.t = "String" ->
                   LET nsi == Len(ctx.out.strings)
                       c1 == IF src.ext THEN CopyStrings(ctx, src.doc, v.start, v.count) ELSE ctx
                       new_string_start == NewStringStart(src, nsi, v.start)
                   IN  CopyResult(PushOut(c1, out_level,
                                          LiveNode(node.token_id, node_id,
                                                   [v EXCEPT !.start = new_string_start])),
                                  "Noop", IdEmpty)
              [] v.t \in {"Fn", "VarDef"} ->
                   LET nts == Len(ctx.out.tokens)
                       nss == Len(ctx.out.scopes)
                       c1 == IF src.ext
                             THEN clone_scope(CopyTokens(ctx, src.doc, v.start, v.count),
                                              src.doc, v.sstart, v.scount, src.file)
                             ELSE ctx
                       nv == IF src.ext THEN [v EXCEPT !.start = nts, !.sstart = nss] ELSE v
                   IN  CopyResult(PushOut(c1, out_level, LiveNode(node.token_id, node_id, nv)),
                                  "Noop", IdEmpty)
              [] OTHER ->
                   CopyResult(PushOut(ctx, out_level, LiveNode(node.token_id, node_id, v)),
                              "Noop", IdEmpty)

(***************************************************************************)
(* walk_node                                                               *)
(***************************************************************************)
\* out_level + (len - 1) for a multi-segment id, else out_level
ShiftedOutLevel(node, out_level) ==
    IF node.id_pack.k = "Multi" THEN out_level + (node.id_pack.count - 1) ELSE out_level

RECURSIVE ConcatReversed(_)
ConcatReversed(vv) == IF vv = <<>> THEN <<>> ELSE ConcatReversed(Tail(vv)) \o Head(vv)

\* A capture that flattens the stack innermost frame first.
CaptureScopes_InnerFirst(ctx) == [ctx EXCEPT !.out.scopes = @ \o ConcatReversed(ctx.stack)]

\* for i in 0..scope_stack.stack.len() { for j in 0..scope.len() { out_doc.scopes.push(scope[j]) } }
CaptureScopes(ctx) == [ctx EXCEPT !.out.scopes = @ \o Concat(ctx.stack)]

\* *id = new_id on out_doc.nodes[out_level][out_index], if it still is of kind t
SetResolved(ctx, out_level, out_index, t, new_id) ==
    IF ~HasNode(ctx.out, out_level, out_index) THEN Panic(ctx)
    ELSE IF NodeAt(ctx.out, out_level, out_index).value.t = t
    THEN [ctx EXCEPT !.out.nodes[out_level + 1][out_index + 1].value.id = new_id]
    ELSE ctx

RECURSIVE UseWildcard(_, _, _, _, _)
\* use m::* : every single-id top-level node of the other document
UseWildcard(ctx, nodes, i, file_id, out_level) ==
    IF i >= Len(nodes) \/ ctx.panic THEN ctx
    ELSE UseWildcard(IF At(nodes, i).id_pack.k = "Single"
                     THEN PushScope(ctx, out_level,
                                    LiveScopeItem(At(nodes, i).id_pack.id,
                                                  ScopeFull(file_id, LocalNodePtr(0, i))))
                     ELSE ctx,
                     nodes, i + 1, file_id, out_level)

RECURSIVE UseMulti(_, _, _, _, _, _, _, _, _)
\* use m::a::b : for level in 0..count
UseMulti(ctx, env, node, other_doc, file_id, out_level, level, node_start, node_count) ==
    LET index == node.id_pack.index
        count == node.id_pack.count
    IN  IF level >= count \/ ctx.panic THEN ctx
        ELSE IF ~InRange(env.in_doc.multi_ids, level + index) THEN Panic(ctx)
        ELSE
        LET id == At(env.in_doc.multi_ids, level + index)
            range == node_start..(node_start + node_count - 1)
            oob == {i \in range : ~HasNode(other_doc, level, i)}
            hits == {i \in range : HasNode(other_doc, level, i)
                                   /\ NodeAt(other_doc, level, i).id_pack = IdSingle(id)}
        IN  IF id = ""
            THEN IF level # count - 1 THEN Panic(ctx)
                 \* node.id_pack is a path here, never IdUnpack::Single: nothing is pushed
                 ELSE UseMulti(ctx, env, node, other_doc, file_id, out_level, level + 1,
                               node_start, node_count)
            ELSE IF hits # {} /\ \A o \in oob : SetMin(hits) < o
            THEN LET i == SetMin(hits)
                     other_node == NodeAt(other_doc, level, i)
                 IN  IF level = count - 1
                     THEN UseMulti(PushScope(ctx, out_level,
                                             LiveScopeItem(id, ScopeFull(file_id,
                                                                         LocalNodePtr(level, i)))),
                                   env, node, other_doc, file_id, out_level, level + 1,
                                   node_start, node_count)
                     ELSE IF other_node.value.t = "Class"
                     THEN UseMulti(ctx, env, node, other_doc, file_id, out_level, level + 1,
                                   other_node.value.start, other_node.value.count)
                     ELSE UseMulti(PushError(ctx, "Use path not found", node.token_id),
                                   env, node, other_doc, file_id, out_level, level + 1,
                                   node_start, node_count)
            ELSE IF oob # {} THEN Panic(ctx)
            ELSE UseMulti(PushError(ctx, "Use path not found", node.token_id),
                          env, node, other_doc, file_id, out_level, level + 1,
                          node_start, node_count)

\* A walk that writes the use-declaration to the output.
WalkUse_Emit(env, ctx, node, out_level) == PushOut(ctx, out_level, node)

\* walk_node, LiveValue::Use
WalkUse(env, ctx, node, out_level) ==
    LET crate_module == fetch_crate_module(node.value.cm, env.in_crate)
    IN  IF crate_module \notin DOMAIN env.cm2f THEN Panic(ctx)   \* .get(..).unwrap()
        ELSE
        LET file_id == env.cm2f[crate_module]
            other_doc == At(env.expanded, file_id)
            nodes == At(other_doc.nodes, 0)
            hits == {i \in 0..(Len(nodes) - 1) : At(nodes, i).id_pack = node.id_pack}
        IN  CASE node.id_pack.k = "Empty" -> UseWildcard(ctx, nodes, 0, file_id, out_level)
              [] node.id_pack.k = "Single" ->
                   IF hits # {}
                   THEN PushScope(ctx, out_level,
                                  LiveScopeItem(node.id_pack.id,
                                                ScopeFull(file_id, LocalNodePtr(0, SetMin(hits)))))
                   ELSE PushError(ctx, "Cannot find import", node.token_id)
              [] node.id_pack.k = "Multi" ->
                   UseMulti(ctx, env, node, other_doc, file_id, out_level, 0, 0, Len(nodes))
              [] OTHER -> PushError(ctx, "Node type invalid", node.token_id)

\* The pointer a resolved id is replaced with: the file of a Full scope item,
\* the file being expanded for a Local one.
ResolvedPtr(env, result) ==
    IdNodePtr(IF result.has_file THEN result.file ELSE env.in_file_id, result.ptr)

\* walk_node, LiveValue::IdPack: match resolve_id(..) { Ok(..) => .., Err(err) => .. }
WalkIdPackResolved(env, written, node, out_level, out_index, result) ==
    IF result.panic THEN Panic(written)
    ELSE IF result.ok
    THEN SetResolved(written, out_level, out_index, "IdPack", ResolvedPtr(env, result))
    ELSE PushError(written, result.message, node.token_id)

\* walk_node, LiveValue::IdPack, after the node has been written at out_index
WalkIdPackWritten(env, written, node, out_level, out_start, out_index) ==
    IF node.value.id # IdSelf /\ ~is_baseclass(node.value.id)
    THEN WalkIdPackResolved(env, written, node, out_level, out_index,
                            resolve_id(node.value.id, env, written, out_level, out_start))
    ELSE written

\* walk_node, LiveValue::IdPack: the node is written, then its value is resolved
WalkIdPack(env, ctx, node, out_level, out_start, out_count) ==
    WalkIdPackWritten(env,
                      write_or_add_node(ctx, out_level, out_start, out_count, env.in_doc, node),
                      node, out_level, out_start, get_level_len(ctx.out, out_level))

\* The document a resolved pointer addresses.
FoundDoc(env, written, result) ==
    IF result.has_file THEN At(env.expanded, result.file) ELSE written.out

\* walk_node, LiveValue::Call: match resolve_id(..) { Ok(..) => .., Err(err) => .. }
WalkCallResolved(env, written, node, out_level, out_index, result, found_doc) ==
    IF result.panic THEN Panic(written)
    ELSE IF ~result.ok THEN PushError(written, result.message, node.token_id)
    ELSE IF ~HasNode(found_doc, result.ptr.level, result.ptr.index) THEN Panic(written)
    ELSE IF NodeAt(found_doc, result.ptr.level, result.ptr.index).value.t # "Call"
    THEN PushError(written, "Target not a call", node.token_id)
    ELSE SetResolved(written, out_level, out_index, "Call", ResolvedPtr(env, result))

\* walk_node, LiveValue::Call, after the call node has been written at out_index
WalkCallWritten(env, written, node, out_level, out_start, out_index, result) ==
    IF node.value.id # IdSelf /\ ~is_baseclass(node.value.id)
    THEN WalkCallResolved(env, written, node, out_level, out_index, result,
                          FoundDoc(env, written, result))
    ELSE written

\* walk_node, LiveValue::Call, after the arguments have been walked into
\* [new_node_start, ..) of out_level + 1: the call node is written
WalkCallArgs(env, written, node, out_level, out_start, out_index) ==
    WalkCallWritten(env, written, node, out_level, out_start, out_index,
                    resolve_id(node.value.id, env, written, out_level, out_start))

WalkCallNode(env, ctx, node, out_level, out_start, out_count, new_node_start) ==
    WalkCallArgs(env,
                 write_or_add_node(ctx, out_level, out_start, out_count, env.in_doc,
                                   LiveNode(node.token_id, node.id_pack,
                                            VCall(node.value.id, new_node_start,
                                                  node.value.count))),
                 node, out_level, out_start, get_level_len(ctx.out, out_level))

RECURSIVE walk_node(_, _, _, _, _, _, _)
RECURSIVE WalkChildren(_, _, _, _, _, _, _, _, _)
RECURSIVE CopySelf(_, _, _, _, _, _)
RECURSIVE WalkClassMerge(_, _, _, _, _, _, _, _, _, _)
RECURSIVE WalkClassCopy(_, _, _, _, _, _, _, _, _, _)
RECURSIVE WalkClassScope(_, _, _, _, _, _, _, _)
RECURSIVE WalkClass(_, _, _, _, _, _, _)

\* for i in 0..node_count { walk_node(.., in_level + 1, out_level + 1, i + node_start, out_start, out_count) }
WalkChildren(env, ctx, in_level, out_level, node_start, node_count, i, out_start, out_count) ==
    IF i >= node_count \/ ctx.panic THEN ctx
    ELSE WalkChildren(env,
                      walk_node(env, ctx, in_level + 1, out_level + 1, i + node_start,
                                out_start, out_count),
                      in_level, out_level, node_start, node_count, i + 1, out_start, out_count)

\* class == Self: for i in out_start..len { copy_recur(.., None, .., node.id_pack, 0, out_level, shifted + 1, i) }
CopySelf(ctx, skip_level_id, out_level, to_level, i, end) ==
    IF i >= end \/ ctx.panic THEN ctx
    ELSE CopySelf(copy_recur(ctx, SrcNone, skip_level_id, 0, out_level, to_level, i).ctx,
                  skip_level_id, out_level, to_level, i + 1, end)

\* The own fields are walked with an empty run: nothing inherited is overwritten.
OverrideRange_Empty(out, shifted_out_level, new_out_start) == 0

\* The override of a non-class is let through.
OverrideOfNonClass_Never(copy_res, node_count) == FALSE

\* let new_out_count = out_doc.get_level_len(shifted_out_level + 1) - new_out_start
\* before the own fields are walked: the run of inherited entries they may overwrite.
OverrideRange(out, shifted_out_level, new_out_start) ==
    get_level_len(out, shifted_out_level + 1) - new_out_start

\* if let CopyRecurResult::IsClass {..} = copy_result {} else if node_count > 0
OverrideOfNonClass(copy_res, node_count) == copy_res # "IsClass" /\ node_count > 0

\* walk_node, LiveValue::Class, after the own fields have been walked: the scope
\* frame is popped and the class node is written with the resolved class id
WalkClassWrite(env, walked, node, out_level, out_start, out_count, shifted_out_level, new_out_start, new_class_id) ==
    IF walked.panic THEN walked
    ELSE write_or_add_node([walked EXCEPT !.stack = SubSeq(@, 1, Len(@) - 1)],
                           out_level, out_start, out_count, env.in_doc,
                           LiveNode(node.token_id, node.id_pack,
                                    VClass(new_class_id, new_out_start,
                                           get_level_len(walked.out, shifted_out_level + 1)
                                               - new_out_start)))

\* walk_node, LiveValue::Class, after the base has been copied: the non-class
\* check, then the own fields are walked over the run of the inherited ones
WalkClassMerge(env, copy, node, in_level, out_level, out_start, out_count, shifted_out_level, new_out_start, new_class_id) ==
    IF copy.ctx.panic THEN copy.ctx
    ELSE IF OverrideOfNonClass(copy.res, node.value.count)
    THEN PushError(copy.ctx, "Cannot override items in non-class", node.token_id)  \* no pop
    ELSE IF copy.res # "IsClass"
    THEN [copy.ctx EXCEPT !.stack = SubSeq(@, 1, Len(@) - 1)]
    ELSE WalkClassWrite(env,
                        WalkChildren(env, copy.ctx, in_level, shifted_out_level,
                                     node.value.start, node.value.count, 0, new_out_start,
                                     OverrideRange(copy.ctx.out, shifted_out_level,
                                                   new_out_start)),
                        node, out_level, out_start, out_count, shifted_out_level,
                        new_out_start, new_class_id)

\* walk_node, LiveValue::Class, with the result of resolve_id for the base: the
\* base is copied (Self: the items written so far; a base class: nothing)
WalkClassCopy(env, pushed, node, in_level, out_level, out_start, out_count, shifted_out_level, new_out_start, result) ==
    LET class == node.value.id
        resolves == class # IdSelf /\ ~is_baseclass(class)
    IN  IF resolves /\ result.panic THEN Panic(pushed)
        ELSE IF resolves /\ ~result.ok
        THEN PushError(pushed, result.message, node.token_id)     \* return: no pop
        ELSE WalkClassMerge(env,
                            IF class = IdSelf
                            THEN CopyResult(CopySelf(pushed, node.id_pack, out_level,
                                                     shifted_out_level + 1, out_start,
                                                     get_level_len(pushed.out, out_level)),
                                            "IsClass", class)
                            ELSE IF ~resolves THEN CopyResult(pushed, "IsClass", class)
                            ELSE copy_recur(pushed,
                                            IF result.has_file
                                            THEN SrcSome(At(env.expanded, result.file),
                                                         result.file)
                                            ELSE SrcNone,
                                            node.id_pack, result.ptr.level, result.ptr.level,
                                            shifted_out_level, result.ptr.index),
                            node, in_level, out_level, out_start, out_count,
                            shifted_out_level, new_out_start,
                            IF resolves THEN ResolvedPtr(env, result) ELSE class)

\* walk_node, LiveValue::Class, with the scope frame of the class pushed
WalkClassScope(env, pushed, node, in_level, out_level, out_start, out_count, shifted_out_level) ==
    WalkClassCopy(env, pushed, node, in_level, out_level, out_start, out_count,
                  shifted_out_level, get_level_len(pushed.out, shifted_out_level + 1),
                  resolve_id(node.value.id, env, pushed, out_level, out_start))

\* walk_node, LiveValue::Class
WalkClass(env, ctx, node, in_level, out_level, out_start, out_count) ==
    WalkClassScope(env, [ctx EXCEPT !.stack = Append(@, <<>>)], node, in_level, out_level,
                   out_start, out_count, ShiftedOutLevel(node, out_level))

walk_node(env, ctx, in_level, out_level, in_node_index, out_start, out_count) ==
    IF ctx.panic THEN ctx
    ELSE IF ~HasNode(env.in_doc, in_level, in_node_index) THEN Panic(ctx)
    ELSE
    LET node == NodeAt(env.in_doc, in_level, in_node_index)
        v == node.value
        shifted_out_level == ShiftedOutLevel(node, out_level)
    IN  CASE v.t = "IdPack" -> WalkIdPack(env, ctx, node, out_level, out_start, out_count)
          [] v.t = "Call" ->
               WalkCallNode(env,
                            WalkChildren(env, ctx, in_level, out_level, v.start, v.count, 0,
                                         out_start, 0),
                            node, out_level, out_start, out_count,
                            get_level_len(ctx.out, out_level + 1))
          [] v.t \in {"Array", "Object"} ->
               LET new_node_start == get_level_len(ctx.out, shifted_out_level + 1)
                   walked == WalkChildren(env, ctx, in_level, shifted_out_level, v.start,
                                          v.count, 0, out_start, 0)
               IN  write_or_add_node(walked, out_level, out_start, out_count, env.in_doc,
                                     LiveNode(node.token_id, node.id_pack,
                                              [v EXCEPT !.start = new_node_start]))
          [] v.t \in {"Fn", "VarDef"} ->
               LET new_scope_start == Len(ctx.out.scopes)
                   captured == CaptureScopes(ctx)
               IN  write_or_add_node(captured, out_level, out_start, out_count, env.in_doc,
                                     LiveNode(node.token_id, node.id_pack,
                                              [v EXCEPT !.sstart = new_scope_start,
                                                        !.scount = Len(captured.out.scopes)
                                                                       - new_scope_start]))
          [] v.t = "Use" -> WalkUse(env, ctx, node, out_level)
          [] v.t = "Class" -> WalkClass(env, ctx, node, in_level, out_level, out_start, out_count)
          [] OTHER -> write_or_add_node(ctx, out_level, out_start, out_count, env.in_doc, node)

(***************************************************************************)
(* expand_all_documents: the loop over dep_order, one entry per step       *)
(***************************************************************************)
RECURSIVE WalkTop(_, _, _, _)
\* for i in 0..len { walk_node(.., 0, 0, i, 0, 0) }
WalkTop(env, ctx, i, len) ==
    IF i >= len \/ ctx.panic THEN ctx
    ELSE WalkTop(env, walk_node(env, ctx, 0, 0, i, 0, 0), i + 1, len)

\* The body of the loop for a dirty document: the walk of file_id's raw document,
\* with the previous expanded document swapped out for LiveDocument::new().
ExpandFile(crate_module, file_id, exp, cm2f, files, errs) ==
    LET in_doc == At(files, file_id).document
        env == [expanded |-> SetAt(exp, file_id, NewDocument), cm2f |-> cm2f,
                in_crate |-> crate_module[1], in_file_id |-> file_id, in_doc |-> in_doc]
        ctx == [out |-> restart_from(At(exp, file_id), in_doc), stack |-> << <<>> >>,
                errors |-> errs, panic |-> FALSE]
    IN  WalkTop(env, ctx, 0, Len(At(in_doc.nodes, 0)))

\* The rebuilt document keeps its recompile flag.
Compiled_StaysDirty(out_doc) == out_doc

\* out_doc.recompile = false
Compiled(out_doc) == [out_doc EXCEPT !.recompile = FALSE]

Entry == dep_order[pos]

InLoop == pc = "expand" /\ pos <= Len(dep_order)

Registered(cm) == cm \in DOMAIN crate_module_to_file_id

FileOf(cm) == crate_module_to_file_id[cm]

Last(op, cm, again) == [op |-> op, cm |-> cm, again |-> again]

\* The call: errs is the error list the caller passes in.
ExpandBegin(errs) ==
    /\ pc = "idle"
    /\ pc' = "expand"
    /\ pos' = 1
    /\ errors' = errs
    /\ last' = Last("expand", NoCrateModule, last.op = "expand")
    /\ UNCHANGED <<session, file_ids, crate_module_to_file_id, live_files, dep_order, dep_graph,
                   expanded, parses>>

\* No file is registered for the entry: "Cannot find dependency", continue.
ExpandMissing ==
    /\ InLoop
    /\ ~Registered(Entry.cm)
    /\ errors' = Append(errors, LiveError("Cannot find dependency", Entry.token_id))
    /\ pos' = pos + 1
    /\ UNCHANGED <<session, file_ids, crate_module_to_file_id, live_files, dep_order, dep_graph,
                   expanded, pc, last, parses>>

\* The entry's expanded document is not to be recompiled: continue.
ExpandSkip ==
    /\ InLoop
    /\ Registered(Entry.cm)
    /\ ~At(expanded, FileOf(Entry.cm)).recompile
    /\ pos' = pos + 1
    /\ UNCHANGED <<session, file_ids, crate_module_to_file_id, live_files, dep_order, dep_graph,
                   expanded, errors, pc, last, parses>>

\* The entry's document is rebuilt from its raw document.
ExpandDocument ==
    /\ InLoop
    /\ Registered(Entry.cm)
    /\ At(expanded, FileOf(Entry.cm)).recompile
    /\ \E ctx \in {ExpandFile(Entry.cm, FileOf(Entry.cm), expanded, crate_module_to_file_id,
                              live_files, errors)} :
           /\ errors' = ctx.errors
           /\ IF ctx.panic
              THEN /\ pc' = "panicked"
                   /\ pos' = pos
                   /\ expanded' = SetAt(expanded, FileOf(Entry.cm), NewDocument)
              ELSE /\ pc' = pc
                   /\ pos' = pos + 1
                   /\ expanded' = SetAt(expanded, FileOf(Entry.cm), Compiled(ctx.out))
    /\ UNCHANGED <<session, file_ids, crate_module_to_file_id, live_files, dep_order, dep_graph,
                   last, parses>>

\* The loop is over: expand_all_documents returns.
ExpandReturn ==
    /\ pc = "expand"
    /\ pos > Len(dep_order)
    /\ pc' = "idle"
    /\ pos' = 0
    /\ UNCHANGED <<session, file_ids, crate_module_to_file_id, live_files, dep_order, dep_graph,
                   expanded, errors, last, parses>>

(***************************************************************************)
(* find_component_origin                                                   *)
(***************************************************************************)
\* LiveDocument::scan_for_multi(ids): the node the path ids names from the top
\* level, each further segment a field of the class the one before it names.
scan_for_multi(doc, ids) ==
    IF ids = <<>> THEN [found |-> FALSE, level |-> 0, index |-> 0]
    ELSE ScanSegments(doc, 0, 0, LevelLen(doc, 0), ids, 0, Len(ids) - 1)

ChainEnd(class_iter, token_id_iter) ==
    [end |-> "class", class |-> class_iter, token_id |-> token_id_iter]

ChainStop(end) == [end |-> end, class |-> IdEmpty, token_id |-> TokenIdDefault]

RECURSIVE ClassChain(_, _, _, _)
\* while let IdUnpack::FullNodePtr(full_ptr) = class_iter.unpack() { .. }: ends
\* with the class the chain stops at ("class"), at a node that is no class
\* ("none"), on an index out of range ("panic"), or not at all ("loop").
ClassChain(exp, class_iter, token_id_iter, steps) ==
    IF class_iter.k # "Ptr" THEN ChainEnd(class_iter, token_id_iter)
    ELSE IF steps >= MaxChain THEN ChainStop("loop")
    ELSE IF ~InRange(exp, class_iter.file) THEN ChainStop("panic")
    ELSE IF ~HasNode(At(exp, class_iter.file), class_iter.level, class_iter.index)
    THEN ChainStop("panic")
    ELSE IF NodeAt(At(exp, class_iter.file), class_iter.level, class_iter.index).value.t
                = "Class"
    THEN ClassChain(exp,
                    NodeAt(At(exp, class_iter.file), class_iter.level,
                           class_iter.index).value.id,
                    NodeAt(At(exp, class_iter.file), class_iter.level,
                           class_iter.index).token_id,
                    steps + 1)
    ELSE ChainStop("none")

OriginNone == [res |-> "None", cm |-> NoCrateModule, id |-> "", file |-> 0,
               ptr |-> LocalNodePtr(0, 0)]

OriginPanic == [OriginNone EXCEPT !.res = "panic"]

OriginLoop == [OriginNone EXCEPT !.res = "loop"]

OriginSome(cm, id, file_id, ptr) ==
    [res |-> "Some", cm |-> cm, id |-> id, file |-> file_id,
     ptr |-> LocalNodePtr(ptr.level, ptr.index)]

\* The chain ends at anything.
IsComponent_Any(class_iter) == TRUE

\* if class_iter != id_pack!(Component) { return None }
IsComponent(class_iter) == class_iter = Component

\* find_component_origin after the chain has been walked
OriginOfChain(exp, files, file_id, ptr, chain) ==
    IF chain.end = "none" THEN OriginNone
    ELSE IF chain.end = "panic" THEN OriginPanic
    ELSE IF chain.end = "loop" THEN OriginLoop
    ELSE IF ~InRange(exp, chain.token_id.file) \/ ~InRange(files, chain.token_id.file)
    THEN OriginPanic
    ELSE IF ~IsComponent(chain.class) THEN OriginNone
    ELSE IF ~InRange(At(exp, chain.token_id.file).tokens, chain.token_id.tok - 2)
    THEN OriginPanic
    ELSE IF At(At(exp, chain.token_id.file).tokens, chain.token_id.tok - 2).ident
    THEN OriginSome(At(files, chain.token_id.file).crate_module,
                    At(At(exp, chain.token_id.file).tokens, chain.token_id.tok - 2).id,
                    file_id, ptr)
    ELSE OriginNone

\* find_component_origin with the node the path names
OriginOfNode(exp, files, file_id, ptr) ==
    IF NodeAt(At(exp, file_id), ptr.level, ptr.index).value.t = "Class"
    THEN OriginOfChain(exp, files, file_id, ptr,
                       ClassChain(exp, NodeAt(At(exp, file_id), ptr.level, ptr.index).value.id,
                                  NodeAt(At(exp, file_id), ptr.level, ptr.index).token_id, 0))
    ELSE OriginNone

\* find_component_origin with the result of exp.scan_for_multi(ids)
OriginOfPath(exp, files, file_id, found) ==
    IF found.found THEN OriginOfNode(exp, files, file_id, found) ELSE OriginNone

find_component_origin(crate_id, module_id, ids) ==
    IF CrateModule(crate_id, module_id) \in DOMAIN crate_module_to_file_id
    THEN OriginOfPath(expanded, live_files,
                      crate_module_to_file_id[CrateModule(crate_id, module_id)],
                      scan_for_multi(At(expanded,
                                        crate_module_to_file_id[CrateModule(crate_id,
                                                                            module_id)]),
                                     ids))
    ELSE OriginNone

(***************************************************************************)
(* The parsed documents handed to parse_live_file                          *)
(***************************************************************************)
\* A token of the lexer's table: an identifier, or anything else.
TokenIdent(id) == [ident |-> TRUE, id |-> id]

TokenOther == [ident |-> FALSE, id |-> ""]

\* The token table of a text whose declarations are `name : value`: the node of
\* a declaration carries the number of its value token, its name is two tokens
\* before it.
TokensOf(nodes) ==
    LET all == Elems(Concat(nodes))
        toks == {n.token_id.tok : n \in all}
    IN  [i \in 1..(IF toks = {} THEN 0 ELSE SetMax(toks) + 1) |->
            IF \E n \in all : n.token_id.tok = i + 1 /\ n.id_pack.k = "Single"
            THEN TokenIdent((CHOOSE n \in all : n.token_id.tok = i + 1).id_pack.id)
            ELSE TokenOther]

\* document.strings = lex_result.strings; document.tokens = lex_result.tokens
RawDocument(nodes, multi_ids, strings) ==
    [NewDocument EXCEPT !.nodes = nodes, !.multi_ids = multi_ids, !.strings = strings,
                        !.tokens = TokensOf(nodes)]

\* K: Component { x: <n>, y: 2, s: "hi" }
SrcBase(n) ==
    RawDocument(<< <<LiveNode(TokenId(0, 2), IdSingle("K"), VClass(Component, 0, 3))>>,
                   <<LiveNode(TokenId(0, 5), IdSingle("x"), VInt(n)),
                     LiveNode(TokenId(0, 8), IdSingle("y"), VInt(2)),
                     LiveNode(TokenId(0, 11), IdSingle("s"), VString(0, 2))>> >>,
                <<>>, <<"h", "i">>)

\* use c::m3::K; t: "z"; D: K { y: 3 }
SrcDerived ==
    RawDocument(<< <<LiveNode(TokenId(0, 2), IdSingle("K"), VUse(CrateModule("c", "m3"))),
                     LiveNode(TokenId(0, 5), IdSingle("t"), VString(0, 1)),
                     LiveNode(TokenId(0, 8), IdSingle("D"), VClass(IdSingle("K"), 0, 1))>>,
                   <<LiveNode(TokenId(0, 11), IdSingle("y"), VInt(3))>> >>,
                <<>>, <<"z">>)

\* K: Component { x: 1, y: 2 }; D: K { y: 3 }
SrcLocal ==
    RawDocument(<< <<LiveNode(TokenId(0, 2), IdSingle("K"), VClass(Component, 0, 2)),
                     LiveNode(TokenId(0, 5), IdSingle("D"), VClass(IdSingle("K"), 2, 1))>>,
                   <<LiveNode(TokenId(0, 8), IdSingle("x"), VInt(1)),
                     LiveNode(TokenId(0, 11), IdSingle("y"), VInt(2)),
                     LiveNode(TokenId(0, 14), IdSingle("y"), VInt(3))>> >>,
                <<>>, <<>>)

\* use crate::m1::*; D: Component { x: 1 }
SrcCycle ==
    RawDocument(<< <<LiveNode(TokenId(0, 2), IdEmpty, VUse(CrateModule("crate", "m1"))),
                     LiveNode(TokenId(0, 5), IdSingle("D"), VClass(Component, 0, 1))>>,
                   <<LiveNode(TokenId(0, 8), IdSingle("x"), VInt(1))>> >>,
                <<>>, <<>>)

\* a: nothere; E: nothere {}; f: nocall(1); b: 1
SrcUnresolved ==
    RawDocument(<< <<LiveNode(TokenId(0, 2), IdSingle("a"), VIdPack(IdSingle("nothere"))),
                     LiveNode(TokenId(0, 5), IdSingle("E"), VClass(IdSingle("nothere"), 0, 0)),
                     LiveNode(TokenId(0, 8), IdSingle("f"), VCall(IdSingle("nocall"), 0, 1)),
                     LiveNode(TokenId(0, 14), IdSingle("b"), VInt(1))>>,
                   <<LiveNode(TokenId(0, 11), IdEmpty, VInt(1))>> >>,
                <<>>, <<>>)

\* v: 1; E: v { z: 2 }; w: 3
SrcNonClass ==
    RawDocument(<< <<LiveNode(TokenId(0, 2), IdSingle("v"), VInt(1)),
                     LiveNode(TokenId(0, 5), IdSingle("E"), VClass(IdSingle("v"), 0, 1)),
                     LiveNode(TokenId(0, 11), IdSingle("w"), VInt(3))>>,
                   <<LiveNode(TokenId(0, 8), IdSingle("z"), VInt(2))>> >>,
                <<>>, <<>>)

\* use crate::m2::*; E: D { x: 4 }
SrcWildcard ==
    RawDocument(<< <<LiveNode(TokenId(0, 2), IdEmpty, VUse(CrateModule("crate", "m2"))),
                     LiveNode(TokenId(0, 5), IdSingle("E"), VClass(IdSingle("D"), 0, 1))>>,
                   <<LiveNode(TokenId(0, 8), IdSingle("x"), VInt(4))>> >>,
                <<>>, <<>>)

\* E: D { x: 4 }             (SrcWildcard without its import)
SrcNoImport ==
    RawDocument(<< <<LiveNode(TokenId(0, 5), IdSingle("E"), VClass(IdSingle("D"), 0, 1))>>,
                   <<LiveNode(TokenId(0, 8), IdSingle("x"), VInt(4))>> >>,
                <<>>, <<>>)

\* use c::mx::Q; b: 1        (no file is ever registered for c::mx)
SrcMissing ==
    RawDocument(<< <<LiveNode(TokenId(0, 2), IdSingle("Q"), VUse(CrateModule("c", "mx"))),
                     LiveNode(TokenId(0, 5), IdSingle("b"), VInt(1))>> >>,
                <<>>, <<>>)

M1 == CrateModule("c", "m1")

M2 == CrateModule("c", "m2")

M3 == CrateModule("c", "m3")

\* A source text: one that lexes and parses into `document`, or one that does not.
Text(document) == [error |-> FALSE, document |-> document]

BrokenText == [error |-> TRUE, document |-> NewDocument]

Input(file, cm, document) == [file |-> file, cm |-> cm, source |-> Text(document)]

BrokenInput(file, cm) == [file |-> file, cm |-> cm, source |-> BrokenText]

\* The calls of parse_live_file the environment makes.
Inputs ==
    {Input("m3.live", M3, SrcBase(1)), Input("m3.live", M3, SrcBase(9)),
     Input("m2.live", M2, SrcDerived), Input("m2.live", M2, SrcLocal),
     Input("m2.live", M2, SrcCycle),
     Input("m1.live", M1, SrcUnresolved), Input("m1.live", M1, SrcNonClass),
     Input("m1.live", M1, SrcWildcard), Input("m1.live", M1, SrcMissing),
     Input("m1.live", M1, SrcNoImport)}

\* The error lists a caller passes to expand_all_documents.
ErrorLists == {<<>>, <<LiveError("earlier", TokenIdDefault)>>}

EmptyMap == [x \in {} |-> 0]

(***************************************************************************)
(* Session (src/code_editor/src/state.rs)                                  *)
(*                                                                         *)
(* The text of the document is kept as one entry per line: whether the     *)
(* line's indent level reaches settings.fold_level. scale is kept in       *)
(* hundredths (1.0 is ScaleOne), rounded towards the value it moves away   *)
(* from; column_count and wrap_data entries are TRUE for Some(..).         *)
(***************************************************************************)
MaxLines == 3

MaxEdits == 1

\* scale: 1.0
ScaleOne == 100

\* scale: 0.1
ScaleFolded == 10

\* settings.fold_level * settings.tab_column_count
FoldColumn == 8

\* Session::new(document)
Session_new(text) ==
    [lines |-> text,
     column_count |-> [i \in 1..Len(text) |-> TRUE],
     fold_column |-> [i \in 1..Len(text) |-> 0],
     scale |-> [i \in 1..Len(text) |-> ScaleOne],
     wrap_data |-> [i \in 1..Len(text) |-> TRUE],
     folding_lines |-> {}, folded_lines |-> {}, unfolding_lines |-> {},
     panicked |-> FALSE, ret |-> "new", edits |-> 0]

\* No session has been made.
NoSession == Session_new(<<>>)

\* An index out of range (or a drain past the end) aborts the call.
SessionPanic(s) == [s EXCEPT !.panicked = TRUE]

\* A fold that leaves the line in unfolding_lines.
FoldLine_KeepUnfolding(s, line) ==
    IF s.lines[line + 1] /\ line \notin s.folded_lines
    THEN [s EXCEPT !.fold_column[line + 1] = FoldColumn,
                   !.folding_lines = @ \cup {line}]
    ELSE s

\* The body of the loop of fold for one line.
FoldLine(s, line) ==
    IF s.panicked THEN s
    ELSE IF s.lines[line + 1] /\ line \notin s.folded_lines
    THEN IF line >= Len(s.fold_column) THEN SessionPanic(s)
         ELSE [s EXCEPT !.fold_column[line + 1] = FoldColumn,
                        !.unfolding_lines = @ \ {line},
                        !.folding_lines = @ \cup {line}]
    ELSE s

RECURSIVE FoldFrom(_, _)
\* for line in 0..lines.len()
FoldFrom(s, line) ==
    IF line >= Len(s.lines) THEN s ELSE FoldFrom(FoldLine(s, line), line + 1)

\* Session::fold
fold(s) == FoldFrom(s, 0)

\* Session::unfold
unfold(s) ==
    [s EXCEPT !.unfolding_lines = @ \cup s.folding_lines \cup s.folded_lines,
              !.folding_lines = {},
              !.folded_lines = {}]

\* scale[line] *= 0.9
ScaleDown(scale) == (scale * 9) \div 10

\* 1.0 - 0.9 * (1.0 - scale)
ScaleUp(scale) == ScaleOne - ((ScaleOne - scale) * 9) \div 10

\* scale[line] < 0.1 + 0.001
IsFolded(scale) == 10 * scale < 10 * ScaleFolded + 1

\* scale[line] > 1.0 - 0.001
IsUnfolded(scale) == 10 * scale > 10 * ScaleOne - 1

\* update_folds, the loop over folding_lines
UpdateFolding(s) ==
    IF \E line \in s.folding_lines : line >= Len(s.scale) THEN SessionPanic(s)
    ELSE [s EXCEPT !.scale = [i \in 1..Len(@) |->
                                 IF i - 1 \notin s.folding_lines THEN @[i]
                                 ELSE IF IsFolded(ScaleDown(@[i])) THEN ScaleFolded
                                 ELSE ScaleDown(@[i])],
                   !.folded_lines = @ \cup {line \in s.folding_lines :
                                               IsFolded(ScaleDown(s.scale[line + 1]))},
                   !.folding_lines = {line \in @ : ~IsFolded(ScaleDown(s.scale[line + 1]))}]

\* update_folds, the loop over unfolding_lines
UpdateUnfolding(s) ==
    IF s.panicked THEN s
    ELSE IF \E line \in s.unfolding_lines : line >= Len(s.scale) THEN SessionPanic(s)
    ELSE [s EXCEPT !.scale = [i \in 1..Len(@) |->
                                 IF i - 1 \notin s.unfolding_lines THEN @[i]
                                 ELSE IF IsUnfolded(ScaleUp(@[i])) THEN ScaleOne
                                 ELSE ScaleUp(@[i])],
                   !.unfolding_lines = {line \in @ : ~IsUnfolded(ScaleUp(s.scale[line + 1]))}]

\* Session::update_folds: ret is the value returned.
update_folds(s) ==
    IF s.folding_lines = {} /\ s.unfolding_lines = {}
    THEN [s EXCEPT !.ret = "false"]
    ELSE [UpdateUnfolding(UpdateFolding(s)) EXCEPT !.ret = "true"]

\* Vec::splice(at..at, n copies of x)
Splice(v, at, n, x) == SubSeq(v, 1, at) \o [i \in 1..n |-> x] \o SubSeq(v, at + 1, Len(v))

\* Vec::drain(start..end)
Drain(v, start, end) == SubSeq(v, 1, start) \o SubSeq(v, end + 1, Len(v))

\* Change::Insert(point, text): text has line_count line breaks, and its lines
\* reach the fold level or not (foldable).
EditInsert(line_index, line_count, foldable) ==
    [kind |-> "Insert", line_index |-> line_index, line_count |-> line_count,
     foldable |-> foldable]

\* Change::Delete(start, length)
EditDelete(line_index, line_count) ==
    [kind |-> "Delete", line_index |-> line_index, line_count |-> line_count,
     foldable |-> FALSE]

\* The text of the document after the edit (the document applies the edit
\* before it hands it to its sessions).
TextAfter(text, edit) ==
    IF edit.kind = "Insert"
    THEN Splice(text, edit.line_index + 1, edit.line_count, edit.foldable)
    ELSE Drain(text, edit.line_index + 1, edit.line_index + 1 + edit.line_count)

\* apply_edits, one edit of the loop
ApplyEdit(s, edit) ==
    IF s.panicked THEN s
    ELSE IF edit.line_index >= Len(s.column_count) \/ edit.line_index >= Len(s.wrap_data)
    THEN SessionPanic(s)
    ELSE IF edit.line_count = 0
    THEN [s EXCEPT !.column_count[edit.line_index + 1] = FALSE,
                   !.wrap_data[edit.line_index + 1] = FALSE]
    ELSE IF edit.kind = "Insert"
    THEN [s EXCEPT !.column_count = Splice([@ EXCEPT ![edit.line_index + 1] = FALSE],
                                           edit.line_index + 1, edit.line_count, FALSE),
                   !.fold_column = Splice(@, edit.line_index + 1, edit.line_count, 0),
                   !.scale = Splice(@, edit.line_index + 1, edit.line_count, ScaleOne),
                   !.wrap_data = Splice([@ EXCEPT ![edit.line_index + 1] = FALSE],
                                        edit.line_index + 1, edit.line_count, FALSE)]
    ELSE IF edit.line_index + 1 + edit.line_count > Len(s.scale) THEN SessionPanic(s)
    ELSE [s EXCEPT !.column_count = Drain([@ EXCEPT ![edit.line_index + 1] = FALSE],
                                          edit.line_index + 1,
                                          edit.line_index + 1 + edit.line_count),
                   !.fold_column = Drain(@, edit.line_index + 1,
                                         edit.line_index + 1 + edit.line_count),
                   !.scale = Drain(@, edit.line_index + 1,
                                   edit.line_index + 1 + edit.line_count),
                   !.wrap_data = Drain([@ EXCEPT ![edit.line_index + 1] = FALSE],
                                       edit.line_index + 1,
                                       edit.line_index + 1 + edit.line_count)]

\* apply_edits, after the edits: for line in 0..line_count { if wrap_data[line].is_none()
\* { update_wrap_data(line) } }, which sets wrap_data[line] and column_count[line]
UpdateWrapData(s) ==
    IF s.panicked THEN s
    ELSE IF Len(s.lines) > Len(s.wrap_data) THEN SessionPanic(s)
    ELSE IF \E i \in 1..Len(s.lines) : ~s.wrap_data[i] /\ i > Len(s.column_count)
    THEN SessionPanic(s)
    ELSE [s EXCEPT !.column_count = [i \in 1..Len(@) |->
                                        IF i <= Len(s.lines) /\ ~s.wrap_data[i] THEN TRUE
                                        ELSE @[i]],
                   !.wrap_data = [i \in 1..Len(@) |-> IF i <= Len(s.lines) THEN TRUE ELSE @[i]]]

\* apply_edits for one edit the document has applied to its text
apply_edits(s, edit) ==
    UpdateWrapData(ApplyEdit([s EXCEPT !.lines = TextAfter(@, edit)], edit))

Init ==
    /\ session = NoSession
    /\ file_ids = EmptyMap
    /\ crate_module_to_file_id = EmptyMap
    /\ live_files = <<>>
    /\ dep_order = <<>>
    /\ dep_graph = EmptyMap
    /\ expanded = <<>>
    /\ errors = <<>>
    /\ pc = "idle"
    /\ pos = 0
    /\ last = Last("new", NoCrateModule, FALSE)
    /\ parses = 0

ParseLiveFile == \E inp \in Inputs : parse_live_file(inp.file, inp.cm[1], inp.cm[2], inp.source)

ExpandAllDocuments == \E errs \in ErrorLists : ExpandBegin(errs)

Next ==
    \/ ParseLiveFile
    \/ ExpandAllDocuments
    \/ ExpandMissing
    \/ ExpandSkip
    \/ ExpandDocument
    \/ ExpandReturn

Spec == Init /\ [][Next]_vars

(***************************************************************************)
(* A second environment: file names and crate-modules are not paired one   *)
(* to one, and a text may fail to lex or parse                             *)
(***************************************************************************)
\* K: Component { c: Component { a: Self {}, x: 1 } }; D: K {}
SrcSelf ==
    RawDocument(<< <<LiveNode(TokenId(0, 2), IdSingle("K"), VClass(Component, 0, 1)),
                     LiveNode(TokenId(0, 14), IdSingle("D"), VClass(IdSingle("K"), 1, 0))>>,
                   <<LiveNode(TokenId(0, 5), IdSingle("c"), VClass(Component, 0, 2))>>,
                   <<LiveNode(TokenId(0, 8), IdSingle("a"), VClass(IdSelf, 0, 0)),
                     LiveNode(TokenId(0, 11), IdSingle("x"), VInt(1))>> >>,
                <<>>, <<>>)

\* S: Struct { p: 1 }; T: S { }
SrcStruct ==
    RawDocument(<< <<LiveNode(TokenId(0, 2), IdSingle("S"), VClass(IdSingle("Struct"), 0, 1)),
                     LiveNode(TokenId(0, 8), IdSingle("T"), VClass(IdSingle("S"), 1, 0))>>,
                   <<LiveNode(TokenId(0, 5), IdSingle("p"), VInt(1))>> >>,
                <<>>, <<>>)

FileInputs ==
    {Input("m3.live", M3, SrcBase(1)), Input("m3.live", M3, SrcSelf),
     Input("m3.live", M3, SrcStruct),
     Input("m2.live", M2, SrcDerived),
     Input("m2.live", M1, SrcNonClass),       \* the file of m2 under the name of m1
     Input("m1.live", M1, SrcMissing),        \* m1 in a second file
     BrokenInput("m1.live", M1)}

ParseAnyFile ==
    \E inp \in FileInputs : parse_live_file(inp.file, inp.cm[1], inp.cm[2], inp.source)

\* The paths the consuming layer asks find_component_origin for.
Paths == {<<"D">>, <<"T">>, <<"E">>, <<"D", "c">>}

\* A call of find_component_origin(&self, ..): the registry is only read.
FindComponentOrigin ==
    /\ pc = "idle"
    /\ \E cm \in {M1, M2, M3} : \E ids \in Paths :
           \E ret \in {find_component_origin(cm[1], cm[2], ids)} :
               /\ last' = [op |-> "find_component_origin", cm |-> cm, again |-> FALSE,
                           ids |-> ids, ret |-> ret]
               /\ pc' = IF ret.res \in {"panic", "loop"} THEN "query_aborted" ELSE "idle"
    /\ UNCHANGED <<session, file_ids, crate_module_to_file_id, live_files, dep_order, dep_graph,
                   expanded, errors, pos, parses>>

NextFiles ==
    \/ ParseAnyFile
    \/ FindComponentOrigin
    \/ ExpandAllDocuments
    \/ ExpandMissing
    \/ ExpandSkip
    \/ ExpandDocument
    \/ ExpandReturn

SpecFiles == Init /\ [][NextFiles]_vars

(***************************************************************************)
(* A third environment: aliases of values, of this file and of another.    *)
(***************************************************************************)
\* s: "hi"; n: 7
SrcPrims ==
    RawDocument(<< <<LiveNode(TokenId(0, 2), IdSingle("s"), VString(0, 2)),
                     LiveNode(TokenId(0, 5), IdSingle("n"), VInt(7))>> >>,
                <<>>, <<"h", "i">>)

\* use c::m3::s; v: 1; t: "z"; E: v {}; F: s {}; G: t {}
SrcAlias ==
    RawDocument(<< <<LiveNode(TokenId(0, 2), IdSingle("s"), VUse(CrateModule("c", "m3"))),
                     LiveNode(TokenId(0, 5), IdSingle("v"), VInt(1)),
                     LiveNode(TokenId(0, 8), IdSingle("t"), VString(0, 1)),
                     LiveNode(TokenId(0, 11), IdSingle("E"), VClass(IdSingle("v"), 0, 0)),
                     LiveNode(TokenId(0, 14), IdSingle("F"), VClass(IdSingle("s"), 0, 0)),
                     LiveNode(TokenId(0, 17), IdSingle("G"), VClass(IdSingle("t"), 0, 0))>> >>,
                <<>>, <<"z">>)

\* A: Self {}; B: A { x: 1 }
SrcSelfBase ==
    RawDocument(<< <<LiveNode(TokenId(0, 2), IdSingle("A"), VClass(IdSelf, 0, 0)),
                     LiveNode(TokenId(0, 5), IdSingle("B"), VClass(IdSingle("A"), 0, 1))>>,
                   <<LiveNode(TokenId(0, 8), IdSingle("x"), VInt(1))>> >>,
                <<>>, <<>>)

\* K: Component { a: Component {} }; D: K { a: Self.a {} }
SrcSelfField ==
    RawDocument(<< <<LiveNode(TokenId(0, 2), IdSingle("K"), VClass(Component, 0, 1)),
                     LiveNode(TokenId(0, 8), IdSingle("D"), VClass(IdSingle("K"), 1, 1))>>,
                   <<LiveNode(TokenId(0, 5), IdSingle("a"), VClass(Component, 0, 0)),
                     LiveNode(TokenId(0, 11), IdSingle("a"), VClass(IdMulti(0, 2), 0, 0))>> >>,
                <<"Self", "a">>, <<>>)

\* v: 1; E: v {}; g: E
SrcAliasRef ==
    RawDocument(<< <<LiveNode(TokenId(0, 2), IdSingle("v"), VInt(1)),
                     LiveNode(TokenId(0, 5), IdSingle("E"), VClass(IdSingle("v"), 0, 0)),
                     LiveNode(TokenId(0, 8), IdSingle("g"), VIdPack(IdSingle("E")))>> >>,
                <<>>, <<>>)

\* use c::m3::K; D: K { y: 3, y: 4 }; N: Component { w: 1, w: 2 }
SrcTwice ==
    RawDocument(<< <<LiveNode(TokenId(0, 2), IdSingle("K"), VUse(CrateModule("c", "m3"))),
                     LiveNode(TokenId(0, 5), IdSingle("D"), VClass(IdSingle("K"), 0, 2)),
                     LiveNode(TokenId(0, 14), IdSingle("N"), VClass(Component, 2, 2))>>,
                   <<LiveNode(TokenId(0, 8), IdSingle("y"), VInt(3)),
                     LiveNode(TokenId(0, 11), IdSingle("y"), VInt(4)),
                     LiveNode(TokenId(0, 17), IdSingle("w"), VInt(1)),
                     LiveNode(TokenId(0, 20), IdSingle("w"), VInt(2))>> >>,
                <<>>, <<>>)

DocInputs ==
    {Input("m3.live", M3, SrcPrims), Input("m3.live", M3, SrcBase(1)),
     Input("m2.live", M2, SrcAlias), Input("m2.live", M2, SrcTwice),
     Input("m1.live", M1, SrcSelfField), Input("m1.live", M1, SrcAliasRef),
     Input("m1.live", M1, SrcMissing), Input("m1.live", M1, SrcSelfBase)}

ParseDocument ==
    \E inp \in DocInputs : parse_live_file(inp.file, inp.cm[1], inp.cm[2], inp.source)

NextDocs ==
    \/ ParseDocument
    \/ ExpandAllDocuments
    \/ ExpandMissing
    \/ ExpandSkip
    \/ ExpandDocument
    \/ ExpandReturn

SpecDocs == Init /\ [][NextDocs]_vars

(***************************************************************************)
(* The functions of the registry called on their own: ScopeStack::find_item*)
(* on scope stacks, the dep_order repair of one Use node on processing     *)
(* orders, resolve_id on scope stacks that bind the reserved names. `last` *)
(* records the call and what it returned; the registry is left alone.      *)
(***************************************************************************)
SeqsUpTo(S, n) == UNION {[1..k -> S] : k \in 0..n}

Call(op, args, ret) == [op |-> op, cm |-> NoCrateModule, again |-> FALSE, given |-> args, ret |-> ret]

\* The registry as constructed: no call has been made.
Fresh == pc = "idle" /\ last.op = "new"

Returns(rec) ==
    /\ last' = rec
    /\ UNCHANGED <<session, file_ids, crate_module_to_file_id, live_files, dep_order, dep_graph,
                   expanded, errors, pc, pos, parses>>

\* Scope items: two bindings of a, two of b, each with a target of its own.
ScopeItems ==
    {LiveScopeItem("a", ScopeLocal(LocalNodePtr(0, 0))),
     LiveScopeItem("a", ScopeLocal(LocalNodePtr(0, 1))),
     LiveScopeItem("b", ScopeLocal(LocalNodePtr(0, 2))),
     LiveScopeItem("b", ScopeFull(1, LocalNodePtr(0, 3)))}

ScopeStacks == SeqsUpTo(SeqsUpTo(ScopeItems, MaxItems), MaxFrames)

FindItem ==
    /\ Fresh
    /\ \E stack \in ScopeStacks : \E id \in {"a", "b", "c"} :
        Returns(Call("find_item", [stack |-> stack, id |-> id], find_item(stack, id)))

Mx == CrateModule("c", "mx")

Modules == {M1, M2, M3, Mx}

\* dep_order holds a crate-module at most once (it is pushed or inserted only
\* when absent or just removed).
Orders ==
    {[i \in DOMAIN o |-> DepEntry(o[i], TokenIdDefault)] :
        o \in {q \in SeqsUpTo(Modules, MaxOrder) :
                  \A i, j \in DOMAIN q : q[i] = q[j] => i = j}}

\* The importing module is in dep_order when its Use nodes are scanned (lines 204-206).
RepairOneUse ==
    /\ Fresh
    /\ \E order \in Orders : \E own \in Modules : \E cm \in Modules :
        /\ Position(order, own) # 0
        /\ Returns(Call("repair", [order |-> order, own |-> own, cm |-> cm],
                        RepairOrder(order, own, cm, TokenId(0, 2))))

ReservedNames == {"Component", "Enum", "Struct", "Shader", "Variant"}

\* Component: Struct { x: 1 }; a: Struct { x: 2 }, and the paths Component.x,
\* Enum.x, Struct.x, Shader.x, Variant.x, a.x
ScopeDoc ==
    RawDocument(<< <<LiveNode(TokenId(0, 2), IdSingle("Component"), VClass(IdSingle("Struct"), 0, 1)),
                     LiveNode(TokenId(0, 8), IdSingle("a"), VClass(IdSingle("Struct"), 1, 1))>>,
                   <<LiveNode(TokenId(0, 5), IdSingle("x"), VInt(1)),
                     LiveNode(TokenId(0, 11), IdSingle("x"), VInt(2))>> >>,
                <<"Component", "x", "Enum", "x", "Struct", "x", "Shader", "x",
                  "Variant", "x", "a", "x">>, <<>>)

\* Bindings of the reserved names and of a to the two declarations, local and
\* of file 0.
ReservedItems ==
    {LiveScopeItem(n, t) : n \in ReservedNames \cup {"a"},
                           t \in {ScopeLocal(LocalNodePtr(0, 0)), ScopeFull(0, LocalNodePtr(0, 1))}}

ResolvedIds ==
    {IdSingle(n) : n \in ReservedNames \cup {"a", "q"}} \cup {IdMulti(2 * k, 2) : k \in 0..5}

ScopeEnv ==
    [expanded |-> <<ScopeDoc, NewDocument>>, cm2f |-> EmptyMap, in_crate |-> "c",
     in_file_id |-> 1, in_doc |-> ScopeDoc]

ScopeCtx(stack) == [out |-> ScopeDoc, stack |-> stack, errors |-> <<>>, panic |-> FALSE]

ResolveId ==
    /\ Fresh
    /\ \E frame \in SeqsUpTo(ReservedItems, MaxItems) : \E id \in ResolvedIds :
        Returns(Call("resolve_id", [stack |-> <<frame>>, id |-> id],
                     resolve_id(id, ScopeEnv, ScopeCtx(<<frame>>), 0, 0)))

\* An output document in the making: K: Component { x: 1, y: 2 } is written,
\* and z: 3 is the one entry written so far of a class that is open at start 2.
\* The paths are Self.x, Self.z, Self.w.
OpenDoc ==
    RawDocument(<< <<LiveNode(TokenId(0, 2), IdSingle("K"), VClass(Component, 0, 2))>>,
                   <<LiveNode(TokenId(0, 5), IdSingle("x"), VInt(1)),
                     LiveNode(TokenId(0, 8), IdSingle("y"), VInt(2)),
                     LiveNode(TokenId(0, 14), IdSingle("z"), VInt(3))>> >>,
                <<"Self", "x", "Self", "z", "Self", "w">>, <<>>)

\* Bindings of x, z and w on the scope stack.
OpenItems ==
    {LiveScopeItem("x", ScopeLocal(LocalNodePtr(1, 0))),
     LiveScopeItem("z", ScopeFull(0, LocalNodePtr(1, 2))),
     LiveScopeItem("w", ScopeLocal(LocalNodePtr(0, 0)))}

OpenEnv ==
    [expanded |-> <<OpenDoc, NewDocument>>, cm2f |-> EmptyMap, in_crate |-> "c",
     in_file_id |-> 1, in_doc |-> OpenDoc]

OpenCtx(stack) == [out |-> OpenDoc, stack |-> stack, errors |-> <<>>, panic |-> FALSE]

\* resolve_id of a Self-headed path at level 1, for a class whose output
\* starts at out_start.
ResolveSelfPath ==
    /\ Fresh
    /\ \E outer \in SeqsUpTo(OpenItems, MaxItems) : \E inner \in SeqsUpTo(OpenItems, MaxItems) :
       \E k \in 0..2 : \E out_start \in {0, 2, 3} :
           Returns(Call("resolve_self",
                        [stack |-> <<outer, inner>>, id |-> IdMulti(2 * k, 2),
                         out_level |-> 1, out_start |-> out_start],
                        resolve_id(IdMulti(2 * k, 2), OpenEnv, OpenCtx(<<outer, inner>>),
                                   1, out_start)))

\* An expanded document to copy from:
\*   n: 7; K: Component { x: 1, f: fn .. }; A: Self {}; g: fn ..; h: var ..;
\*   s: "hi"; D: K {}
\* The bodies of f, g and h are token spans, with the scope entries they
\* captured: K and n of this document, q of file 2.
CopyNodes ==
    << <<LiveNode(TokenId(0, 2), IdSingle("n"), VInt(7)),
         LiveNode(TokenId(0, 5), IdSingle("K"), VClass(Component, 0, 2)),
         LiveNode(TokenId(0, 14), IdSingle("A"), VClass(IdSelf, 2, 0)),
         LiveNode(TokenId(0, 17), IdSingle("g"), VFn(1, 2, 0, 2)),
         LiveNode(TokenId(0, 20), IdSingle("h"), VVarDef(4, 3, 1, 2)),
         LiveNode(TokenId(0, 23), IdSingle("s"), VString(0, 2)),
         LiveNode(TokenId(0, 26), IdSingle("D"), VClass(IdNodePtr(0, LocalNodePtr(0, 1)), 2, 0))>>,
       <<LiveNode(TokenId(0, 8), IdSingle("x"), VInt(1)),
         LiveNode(TokenId(0, 11), IdSingle("f"), VFn(9, 1, 2, 1))>> >>

CopyScopes ==
    <<LiveScopeItem("K", ScopeLocal(LocalNodePtr(0, 1))),
      LiveScopeItem("q", ScopeFull(2, LocalNodePtr(0, 0))),
      LiveScopeItem("n", ScopeLocal(LocalNodePtr(0, 0)))>>

CopyDoc == [RawDocument(CopyNodes, <<>>, <<"h", "i">>) EXCEPT !.scopes = CopyScopes]

\* The document copied into when the copy is from another document: it holds
\* u: fn .. with two tokens and one captured scope entry of its own.
CopyOut ==
    [RawDocument(<< <<LiveNode(TokenId(1, 2), IdSingle("u"), VFn(0, 2, 0, 1))>>, <<>> >>,
                 <<>>, <<"z">>)
        EXCEPT !.scopes = <<LiveScopeItem("u", ScopeLocal(LocalNodePtr(0, 0)))>>]

\* in_doc of copy_recur: Some((CopyDoc, file 0)), or None with out_doc = CopyDoc.
CopyFrom(ext) == IF ext THEN SrcSome(CopyDoc, 0) ELSE SrcNone

CopyCtx(ext) ==
    [out |-> IF ext THEN CopyOut ELSE CopyDoc, stack |-> << <<>> >>, errors |-> <<>>,
     panic |-> FALSE]

\* copy_recur of a top-level node, as the root of a base (skip_level = 0, the
\* root takes the declaring id E) or as a node below the root (skip_level = 1).
CopyNode ==
    /\ Fresh
    /\ \E ext \in BOOLEAN : \E in_index \in 0..(Len(CopyNodes[1]) - 1) :
       \E skip_level \in {0, 1} : \E out_level \in {0, 1} :
           Returns(Call("copy_recur",
                        [ext |-> ext, in_index |-> in_index, skip_level |-> skip_level,
                         out_level |-> out_level],
                        copy_recur(CopyCtx(ext), CopyFrom(ext), IdSingle("E"), skip_level,
                                   0, out_level, in_index)))

\* An output document in the making, of file 1:
\*   D: Component { a: Component { b: 0, c: 0 } }  n: 7
WalkOut ==
    RawDocument(<< <<LiveNode(TokenId(1, 2), IdSingle("D"), VClass(Component, 0, 1)),
                     LiveNode(TokenId(1, 5), IdSingle("n"), VInt(7))>>,
                   <<LiveNode(TokenId(1, 8), IdSingle("a"), VClass(Component, 0, 2))>>,
                   <<LiveNode(TokenId(1, 11), IdSingle("b"), VInt(0)),
                     LiveNode(TokenId(1, 14), IdSingle("c"), VInt(0))>> >>,
                <<>>, <<>>)

\* The declaration kinds that have a child span, each with the one child q: 1.
WalkKinds == <<VObject(0, 1), VArray(0, 1), VClass(Component, 0, 1), VCall(Component, 0, 1)>>

\* The ids of the declarations: the paths a.b and D.a.b, and the single id e.
WalkIds == <<IdMulti(0, 2), IdMulti(2, 3), IdSingle("e")>>

\* The raw nodes walked: every kind under every id, then
\*   E: nothere { q: 1 }  F: n { q: 1 }  G: n {}  p: 3
WalkNodes ==
    << [i \in 1..12 |-> LiveNode(TokenId(1, 20 + 3 * i), WalkIds[((i - 1) \div 4) + 1],
                                 WalkKinds[((i - 1) % 4) + 1])]
       \o <<LiveNode(TokenId(1, 60), IdSingle("E"), VClass(IdSingle("nothere"), 0, 1)),
             LiveNode(TokenId(1, 63), IdSingle("F"), VClass(IdSingle("n"), 0, 1)),
             LiveNode(TokenId(1, 66), IdSingle("G"), VClass(IdSingle("n"), 0, 0)),
             LiveNode(TokenId(1, 69), IdSingle("p"), VInt(3))>>,
       <<LiveNode(TokenId(1, 72), IdSingle("q"), VInt(1))>> >>

WalkIn == RawDocument(WalkNodes, <<"a", "b", "D", "a", "b">>, <<>>)

WalkEnv ==
    [expanded |-> <<NewDocument, NewDocument>>, cm2f |-> EmptyMap, in_crate |-> "c",
     in_file_id |-> 1, in_doc |-> WalkIn]

\* The scope stack when the walk is at out_level: one frame per level, with the
\* names written so far.
WalkStack(out_level) ==
    SubSeq(<< <<LiveScopeItem("D", ScopeLocal(LocalNodePtr(0, 0))),
                LiveScopeItem("n", ScopeLocal(LocalNodePtr(0, 1)))>>,
              <<LiveScopeItem("a", ScopeLocal(LocalNodePtr(1, 0)))>> >>, 1, out_level + 1)

WalkCtx(out_level) ==
    [out |-> WalkOut, stack |-> WalkStack(out_level), errors |-> <<>>, panic |-> FALSE]

\* walk_node of one raw declaration at out_level, over the entries written so
\* far at that level.
WalkNode ==
    /\ Fresh
    /\ \E in_index \in 0..(Len(WalkNodes[1]) - 1) : \E out_level \in {0, 1} :
           Returns(Call("walk_node", [in_index |-> in_index, out_level |-> out_level],
                        walk_node(WalkEnv, WalkCtx(out_level), 0, out_level, in_index, 0,
                                  get_level_len(WalkOut, out_level))))

\* The expanded document of c::m3, file 0, that the use-declarations import from:
\*   K: Component { x: 1, I: Component { p: 1 } }  n: 7
UseDoc ==
    RawDocument(<< <<LiveNode(TokenId(0, 2), IdSingle("K"), VClass(Component, 0, 2)),
                     LiveNode(TokenId(0, 5), IdSingle("n"), VInt(7))>>,
                   <<LiveNode(TokenId(0, 8), IdSingle("x"), VInt(1)),
                     LiveNode(TokenId(0, 11), IdSingle("I"), VClass(Component, 0, 1))>>,
                   <<LiveNode(TokenId(0, 14), IdSingle("p"), VInt(1))>> >>,
                <<>>, <<>>)

\* The paths of the use-declarations: two or three segments, names of UseDoc
\* and the name z that it does not have.
UsePaths ==
    {q \in SeqsUpTo({"K", "n", "z", "x", "I", "p"}, 3) : Len(q) >= 2}

\* The raw document of file 1: use c::m3::<path>
UseIn(path) ==
    RawDocument(<< <<LiveNode(TokenId(1, 2), IdMulti(0, Len(path)), VUse(M3))>> >>, path, <<>>)

UseEnv(path) ==
    [expanded |-> <<UseDoc, NewDocument>>, cm2f |-> MapInsert(EmptyMap, M3, 0),
     in_crate |-> "c", in_file_id |-> 1, in_doc |-> UseIn(path)]

UseCtx == [out |-> NewDocument, stack |-> << <<>> >>, errors |-> <<>>, panic |-> FALSE]

\* walk_node of a use-declaration with a path, at the top level of file 1.
UseNode ==
    /\ Fresh
    /\ \E path \in UsePaths :
           Returns(Call("use", [path |-> path],
                        walk_node(UseEnv(path), UseCtx, 0, 0, 0, 0, 0)))

\* The raw document of the captures: f: fn .. ; h: var ..
CaptureIn ==
    RawDocument(<< <<LiveNode(TokenId(1, 2), IdSingle("f"), VFn(0, 2, 0, 0)),
                     LiveNode(TokenId(1, 5), IdSingle("h"), VVarDef(2, 2, 0, 0))>> >>,
                <<>>, <<>>)

\* The output document at the declaration: an earlier capture left one scope
\* entry in out_doc.scopes.
CaptureOut == [NewDocument EXCEPT !.scopes = <<LiveScopeItem("u", ScopeLocal(LocalNodePtr(0, 0)))>>]

CaptureCtx(stack) == [out |-> CaptureOut, stack |-> stack, errors |-> <<>>, panic |-> FALSE]

\* walk_node of a Fn or VarDef declaration at the level of the innermost frame
\* of the scope stack.
CaptureNode ==
    /\ Fresh
    /\ \E stack \in ScopeStacks : \E in_index \in {0, 1} :
           /\ stack # <<>>
           /\ Returns(Call("capture", [stack |-> stack, in_index |-> in_index],
                           walk_node([WalkEnv EXCEPT !.in_doc = CaptureIn], CaptureCtx(stack),
                                     0, Len(stack) - 1, in_index, 0, 0)))

NextCalls ==
    \/ CaptureNode
    \/ UseNode
    \/ WalkNode
    \/ FindItem
    \/ RepairOneUse
    \/ ResolveId
    \/ ResolveSelfPath
    \/ CopyNode

SpecCalls == Init /\ [][NextCalls]_vars

(***************************************************************************)
(* The code editor's Session: fold, unfold, update_folds, handle_changes   *)
(***************************************************************************)
registry == <<file_ids, crate_module_to_file_id, live_files, dep_order, dep_graph,
              expanded, errors, pc, pos, last, parses>>

\* The texts a session is made for: up to MaxLines lines.
Texts == {t \in SeqsUpTo(BOOLEAN, MaxLines) : t # <<>>}

InitSession ==
    /\ session \in {Session_new(text) : text \in Texts}
    /\ file_ids = EmptyMap
    /\ crate_module_to_file_id = EmptyMap
    /\ live_files = <<>>
    /\ dep_order = <<>>
    /\ dep_graph = EmptyMap
    /\ expanded = <<>>
    /\ errors = <<>>
    /\ pc = "idle"
    /\ pos = 0
    /\ last = Last("new", NoCrateModule, FALSE)
    /\ parses = 0

Fold ==
    /\ ~session.panicked
    /\ session' = [fold(session) EXCEPT !.ret = "fold"]
    /\ UNCHANGED registry

Unfold ==
    /\ ~session.panicked
    /\ session' = [unfold(session) EXCEPT !.ret = "unfold"]
    /\ UNCHANGED registry

UpdateFolds ==
    /\ ~session.panicked
    /\ session' = update_folds(session)
    /\ UNCHANGED registry

\* The edits of whole lines that the text allows: one or two lines inserted
\* after a line, one or two lines after a line deleted.
Edits(text) ==
    {EditInsert(l, n, b) : l \in 0..(Len(text) - 1), n \in 1..(MaxLines - Len(text)),
                           b \in BOOLEAN}
        \cup {e \in {EditDelete(l, n) : l \in 0..(Len(text) - 1), n \in 1..2} :
                 e.line_index + e.line_count < Len(text)}

\* handle_changes: one message of the channel, with one edit.
HandleChanges ==
    /\ ~session.panicked
    /\ session.edits < MaxEdits
    /\ \E edit \in Edits(session.lines) :
           session' = [apply_edits(session, edit) EXCEPT !.ret = "edits",
                                                         !.edits = @ + 1]
    /\ UNCHANGED registry

NextFolds ==
    \/ Fold
    \/ Unfold
    \/ UpdateFolds

\* update_folds is called again and again (it drives the fold animation).
SpecFolds == InitSession /\ [][NextFolds]_vars /\ WF_vars(UpdateFolds)

NextSession ==
    \/ Fold
    \/ Unfold
    \/ UpdateFolds
    \/ HandleChanges

SpecSession == InitSession /\ [][NextSession]_vars

(***************************************************************************)
(* Properties                                                              *)
(***************************************************************************)
RECURSIVE Reach(_, _)
\* The modules reachable from the set S along the import edges of graph.
Reach(graph, S) ==
    LET N == S \cup UNION {graph[c] : c \in S \cap DOMAIN graph}
    IN  IF N = S THEN S ELSE Reach(graph, N)

\* The modules cm imports, directly or transitively.
Imports(graph, cm) == IF cm \in DOMAIN graph THEN Reach(graph, graph[cm]) ELSE {}

Acyclic(graph) == \A c \in DOMAIN graph : c \notin Imports(graph, c)

RegisteredModules == DOMAIN crate_module_to_file_id

Dirty(cm) == At(expanded, FileOf(cm)).recompile

RawOf(cm) == At(live_files, FileOf(cm)).document

\* A registered module's raw document imports a crate-module without a file.
UnregisteredImport ==
    \E cm \in RegisteredModules : \E n \in Elems(AllNodes(RawOf(cm))) :
        n.value.t = "Use" /\ fetch_crate_module(n.value.cm, cm[1]) \notin RegisteredModules

\* This step is one rebuild of the loop of expand_all_documents, of RebuiltFile.
RebuildStep == InLoop /\ Registered(Entry.cm) /\ Dirty(Entry.cm) /\ pos' = pos + 1

RebuiltFile == FileOf(Entry.cm)

\* The errors this step appended.
NewErrors == {errors'[i] : i \in (Len(errors) + 1)..Len(errors')}

\* The children of the node of `level` in doc, in order.
Fields(doc, level, node) ==
    [j \in 1..node.value.count |-> NodeAt(doc, level + 1, node.value.start + j - 1)]

StringOf(doc, node) == SubSeq(doc.strings, node.value.start + 1, node.value.start + node.value.count)

\* The top-level declaration of the raw document that an expanded node stems from.
RawDecls(raw, tok) == {n \in Elems(At(raw.nodes, 0)) : n.token_id = tok}

\* C1: in an acyclic import graph, re-registering a registered module A sets the
\* recompile flag of every registered module that imports A directly or
\* transitively (and returns); an expansion pass rebuilds a dirty entry into a
\* clean document, returns with every importing module clean, and aborts only
\* on an import of a crate-module that has no file.
C1_DirtyPropagation ==
    [][ /\ \A a \in RegisteredModules :
               (parses' = parses + 1 /\ last'.cm = a /\ Acyclic(dep_graph)) =>
                   /\ pc' = "idle"
                   /\ At(expanded', crate_module_to_file_id'[a]).recompile
                   /\ \A b \in RegisteredModules :
                          a \in Imports(dep_graph, b) => At(expanded', FileOf(b)).recompile
        /\ RebuildStep => ~At(expanded', RebuiltFile).recompile
        /\ (pc = "expand" /\ pc' = "idle") =>
               \A b \in RegisteredModules :
                   dep_graph[b] # {} => ~At(expanded', FileOf(b)).recompile
        /\ pc' = "panicked" => UnregisteredImport
      ]_vars

\* A's importers M2 and M1 (through M2) had been expanded, and the second
\* registration of A = M3 has just marked them.
C1_Witness ==
    /\ pc = "idle" /\ last.op = "parse" /\ last.cm = M3
    /\ {M1, M2, M3} \subseteq RegisteredModules
    /\ Acyclic(dep_graph)
    /\ M3 \in dep_graph[M2] /\ M2 \in dep_graph[M1]
    /\ \A b \in {M1, M2} : Dirty(b) /\ At(At(expanded, FileOf(b)).nodes, 0) # <<>>

\* C2: with two registered modules that import each other, parse_live_file
\* returns: mark_dirty does not recurse until the stack is exhausted.
C2_CycleSafe ==
    (\E a, b \in RegisteredModules : a # b /\ a \in dep_graph[b] /\ b \in dep_graph[a])
        => pc # "stack_overflow"

\* C3: with an acyclic import graph every module of dep_order stands after
\* every module of its dep_graph set.
C3_OrderRespectsDeps ==
    Acyclic(dep_graph) =>
        \A cm \in DOMAIN dep_graph : \A d \in dep_graph[cm] :
            Position(dep_order, d) < Position(dep_order, cm)

\* C4: a pass returns with no registered module's expanded document dirty, and
\* a pass that follows a pass without a parse_live_file in between changes no
\* expanded document.
C4_Idempotent ==
    [][ /\ (pc = "expand" /\ pc' = "idle") =>
               \A cm \in RegisteredModules : ~At(expanded', FileOf(cm)).recompile
        /\ (pc = "expand" /\ last.again) => expanded' = expanded
      ]_vars

\* The second of two passes in a row has returned, over a document with content.
C4_Witness ==
    /\ pc = "idle" /\ last.op = "expand" /\ last.again
    /\ \E cm \in RegisteredModules : At(At(expanded, FileOf(cm)).nodes, 0) # <<>>

\* C5: an expansion pass over a module that imports a crate-module without a
\* registered file runs to completion: it does not abort.
C5_PassRunsToCompletion == pc # "panicked"

ResolutionFailures ==
    {"Cannot find item on scope", "Cannot find path", "Cannot find import",
     "Use path not found"}

\* C6: the declaration a resolution error of a rebuild was recorded for is
\* absent from the rebuilt document.
C6_FailedDeclarationDropped ==
    [][ RebuildStep =>
            \A e \in NewErrors :
                e.message \in ResolutionFailures =>
                    \A n \in Elems(AllNodes(At(expanded', RebuiltFile))) :
                        n.token_id # e.token_id
      ]_vars

\* C7: in an acyclic import graph, when the loop is about to rebuild a dirty
\* module, no registered module it imports is still dirty.
C7_DependenciesFirst ==
    (InLoop /\ Registered(Entry.cm) /\ Dirty(Entry.cm) /\ Acyclic(dep_graph)) =>
        \A d \in dep_graph[Entry.cm] : Registered(d) => ~Dirty(d)

\* d is the field that k has become in the derived class: the value of the own
\* field of that id that was declared last, else the inherited value.
InheritedField(doc_d, d, doc_k, k, own) ==
    LET over == {j \in 1..Len(own) : own[j].id_pack = k.id_pack}
    IN  /\ d.id_pack = k.id_pack
        /\ IF over # {}
           THEN d.value = own[CHOOSE j \in over : \A i \in over : i <= j].value
           ELSE IF k.value.t = "String"
           THEN d.value.t = "String" /\ StringOf(doc_d, d) = StringOf(doc_k, k)
           ELSE d.value = k.value

\* C8: a rebuilt top-level class whose base is a class K holds K's fields at
\* K's positions, each with K's value unless the declaration overrides it and
\* then with the declared value; only own fields that K does not have follow.
C8_OverrideInPlace ==
    [][ RebuildStep =>
            LET doc == At(expanded', RebuiltFile)
                raw == At(live_files, RebuiltFile).document
            IN  \A d \in Elems(At(doc.nodes, 0)) :
                    (d.value.t = "Class" /\ d.value.id.k = "Ptr") =>
                        LET base_doc == At(expanded', d.value.id.file)
                            k == NodeAt(base_doc, d.value.id.level, d.value.id.index)
                            kf == Fields(base_doc, d.value.id.level, k)
                            df == Fields(doc, 0, d)
                        IN  \A r \in RawDecls(raw, d.token_id) :
                                LET own == Fields(raw, 0, r)
                                    added == {j \in 1..Len(own) :
                                                 \A i \in 1..Len(kf) :
                                                     kf[i].id_pack # own[j].id_pack}
                                IN  /\ Len(df) = Len(kf) + Cardinality(added)
                                    /\ \A i \in 1..Len(kf) :
                                           InheritedField(doc, df[i], base_doc, kf[i], own)
      ]_vars

\* K { x: 1, y: 2 } and D: K { y: 3 } of one file: D is { x: 1, y: 3 }.
C8_Witness ==
    \E cm \in RegisteredModules :
        /\ RawOf(cm) = LexedFor(SrcLocal, FileOf(cm))
        /\ ~Dirty(cm)
        /\ LET doc == At(expanded, FileOf(cm))
           IN  /\ Len(At(doc.nodes, 0)) = 2
               /\ LET d == NodeAt(doc, 0, 1)
                  IN  /\ d.id_pack = IdSingle("D")
                      /\ [j \in 1..2 |-> Fields(doc, 0, d)[j].id_pack.id] = <<"x", "y">>
                      /\ [j \in 1..2 |-> Fields(doc, 0, d)[j].value] = <<VInt(1), VInt(3)>>

Primitive(n) == n.value.t \in {"Int", "Bool", "String"}

\* The top-level class declaration i (0-based) of raw names as its base a
\* primitive declared before it, all declarations before it being primitives.
BaseIsPrimitive(raw, i) ==
    LET top == At(raw.nodes, 0)
    IN  /\ At(top, i).value.t = "Class"
        /\ \A j \in 0..(i - 1) : Primitive(At(top, j))
        /\ \E j \in 0..(i - 1) : At(top, j).id_pack = At(top, i).value.id

OverrideError(tok) == LiveError("Cannot override items in non-class", tok)

\* C9: a rebuild records "Cannot override items in non-class" for a class
\* declaration with own fields whose base is a primitive value, and no own
\* field of a declaration with that error is in the rebuilt document.
C9_NonClassOverride ==
    [][ RebuildStep =>
            LET doc == At(expanded', RebuiltFile)
                raw == At(live_files, RebuiltFile).document
                top == At(raw.nodes, 0)
            IN  \A i \in 0..(Len(top) - 1) :
                    LET r == At(top, i)
                    IN  /\ (BaseIsPrimitive(raw, i) /\ r.value.count > 0) =>
                               OverrideError(r.token_id) \in NewErrors
                        /\ (r.value.t = "Class" /\ OverrideError(r.token_id) \in NewErrors) =>
                               \A own \in Elems(Fields(raw, 0, r)) :
                                   \A n \in Elems(AllNodes(doc)) :
                                       n.token_id # own.token_id
      ]_vars

\* v: 1; E: v { z: 2 } has been rebuilt: the error is in the list.
C9_Witness ==
    /\ pc = "expand" /\ pos > 1
    /\ Registered(dep_order[pos - 1].cm)
    /\ RawOf(dep_order[pos - 1].cm) = LexedFor(SrcNonClass, FileOf(dep_order[pos - 1].cm))
    /\ \E e \in Elems(errors) : e.message = "Cannot override items in non-class"

\* The file the base named c of the top-level declaration i of raw is bound in:
\* its own when a declaration of the file names it, else that of a use-import.
BaseFiles(raw, i, c, own_file, in_crate, cm2f) ==
    LET top == At(raw.nodes, 0)
        before == {At(top, j) : j \in 0..(i - 1)}
    IN  IF \E n \in before : n.value.t # "Use" /\ n.id_pack = c
        THEN {own_file}
        ELSE {cm2f[fetch_crate_module(n.value.cm, in_crate)] :
                 n \in {u \in before : u.value.t = "Use"}}

\* C10: the base pointer of a rebuilt top-level class carries the file identity
\* of the module its base name was bound from (its own file for a base of the
\* same file) and addresses the node of that name; every string inherited from
\* a base of another file lies in the part of the string table that the copy
\* appended, with the base string's characters.
C10_CrossFileBase ==
    [][ RebuildStep =>
            LET f == RebuiltFile
                doc == At(expanded', f)
                raw == At(live_files, f).document
                top == At(raw.nodes, 0)
            IN  \A d \in Elems(At(doc.nodes, 0)) :
                    (d.value.t = "Class" /\ d.value.id.k = "Ptr") =>
                        LET g == d.value.id.file
                            base_doc == At(expanded', g)
                            k == NodeAt(base_doc, d.value.id.level, d.value.id.index)
                            kf == Fields(base_doc, d.value.id.level, k)
                            df == Fields(doc, 0, d)
                        IN  /\ \A i \in 0..(Len(top) - 1) :
                                   At(top, i).token_id = d.token_id =>
                                       /\ g \in BaseFiles(raw, i, At(top, i).value.id, f,
                                                          Entry.cm[1], crate_module_to_file_id)
                                       /\ k.id_pack = At(top, i).value.id
                            /\ g # f =>
                                   \A j \in 1..Len(kf) :
                                       (kf[j].value.t = "String" /\ df[j].value.t = "String") =>
                                           /\ df[j].value.start >= Len(raw.strings)
                                           /\ df[j].value.start + df[j].value.count
                                                  <= Len(doc.strings)
                                           /\ StringOf(doc, df[j]) = StringOf(base_doc, kf[j])
      ]_vars

\* D: K { y: 3 } of m2 with K of m3: the base pointer is m3's, the string s
\* of K follows m2's own "z" in m2's table.
C10_Witness ==
    /\ {M2, M3} \subseteq RegisteredModules
    /\ RawOf(M2) = LexedFor(SrcDerived, FileOf(M2))
    /\ ~Dirty(M2)
    /\ LET doc == At(expanded, FileOf(M2))
       IN  /\ doc.strings = <<"z", "h", "i">>
           /\ \E d \in Elems(At(doc.nodes, 0)) :
                  /\ d.id_pack = IdSingle("D")
                  /\ d.value.t = "Class"
                  /\ d.value.id = IdNodePtr(FileOf(M3), LocalNodePtr(0, 0))
                  /\ FileOf(M3) # FileOf(M2)
                  /\ Fields(doc, 0, d)[3].value = VString(1, 2)

\* The files of the registered modules that a wildcard use before declaration
\* i of raw names and that declare c at their top level.
WildcardFiles(raw, i, c, in_crate) ==
    LET top == At(raw.nodes, 0)
        uses == {At(top, j) : j \in 0..(i - 1)}
        mods == {fetch_crate_module(u.value.cm, in_crate) :
                    u \in {n \in uses : n.value.t = "Use" /\ n.id_pack = IdEmpty}}
    IN  {FileOf(m) : m \in {d \in mods \cap RegisteredModules :
                                 \E n \in Elems(At(RawOf(d).nodes, 0)) :
                                     n.id_pack = c /\ n.value.t # "Use"}}

\* Declaration i of raw is a class whose base is a plain name.
NamedBase(raw, i) ==
    LET r == At(At(raw.nodes, 0), i)
    IN  /\ r.value.t = "Class"
        /\ r.value.id.k = "Single"
        /\ r.value.id # IdSelf
        /\ ~is_baseclass(r.value.id)

NotOnScope(tok) == LiveError("Cannot find item on scope", tok)

\* C11: in an acyclic import graph a rebuild of N resolves the base name of a
\* top-level class to a module that a preceding wildcard use names and that
\* declares the name at its top level (no "Cannot find item on scope" error,
\* the class is written with a pointer into that file); a rebuild of N with no
\* use and no declaration of that name before the class records "Cannot find
\* item on scope" for it.
C11_WildcardScope ==
    [][ (RebuildStep /\ Acyclic(dep_graph)) =>
            LET raw == At(live_files, RebuiltFile).document
                doc == At(expanded', RebuiltFile)
                top == At(raw.nodes, 0)
            IN  \A i \in 0..(Len(top) - 1) :
                    NamedBase(raw, i) =>
                        LET r == At(top, i)
                            from == WildcardFiles(raw, i, r.value.id, Entry.cm[1])
                                        \ {RebuiltFile}
                        IN  /\ from # {} =>
                                   /\ NotOnScope(r.token_id) \notin NewErrors
                                   /\ \E n \in Elems(At(doc.nodes, 0)) :
                                          /\ n.token_id = r.token_id
                                          /\ n.value.t = "Class"
                                          /\ n.value.id.k = "Ptr"
                                          /\ n.value.id.file \in from
                            /\ (\A j \in 0..(i - 1) :
                                    /\ At(top, j).value.t # "Use"
                                    /\ At(top, j).id_pack # r.value.id) =>
                                   NotOnScope(r.token_id) \in NewErrors
      ]_vars

\* C12: parse_live_file of a text that does not lex or parse returns (a
\* failure value): it does not abort the program.
C12_ParseFailureReturned == pc # "parse_panicked"

\* C13: no two crate-modules map to the same file identity, and a call of
\* parse_live_file does not give a registered crate-module another file
\* identity.
C13_OneToOne ==
    [][ /\ \A a, b \in DOMAIN crate_module_to_file_id' :
               crate_module_to_file_id'[a] = crate_module_to_file_id'[b] => a = b
        /\ \A a \in RegisteredModules :
               crate_module_to_file_id'[a] = crate_module_to_file_id[a]
      ]_vars

\* The node holds a span of child nodes.
HasSpan(n) == n.value.t \in {"Class", "Object", "Array", "Call"}

\* The span of every Class, Object, Array and Call node of doc lies inside the
\* next level, and two such nodes of one level share no child.
SpansInBounds(doc) ==
    \A l \in 0..(Len(doc.nodes) - 1) :
        \A i \in 0..(LevelLen(doc, l) - 1) :
            LET n == NodeAt(doc, l, i)
            IN  (HasSpan(n) /\ n.value.count > 0) =>
                    /\ n.value.start + n.value.count <= LevelLen(doc, l + 1)
                    /\ \A j \in 0..(i - 1) :
                           LET m == NodeAt(doc, l, j)
                           IN  (HasSpan(m) /\ m.value.count > 0) =>
                                   m.value.start + m.value.count <= n.value.start

\* C14: in every expanded document that a pass has rebuilt, the span of each
\* Class, Object, Array and Call node lies within the next nesting level and
\* is the run of that node's own children.
C14_SpansAddressChildren ==
    \A f \in 0..(Len(expanded) - 1) :
        ~At(expanded, f).recompile => SpansInBounds(At(expanded, f))

RECURSIVE ChainRoots(_, _)
\* The classes at which the base-class chain of the class node n can end: n
\* itself when its class is no pointer, else the ends of the chain of the
\* class node its pointer addresses (none when that is no class node).
ChainRoots(n, steps) ==
    IF n.value.t # "Class" \/ steps > MaxChain THEN {}
    ELSE IF n.value.id.k # "Ptr" THEN {n}
    ELSE IF /\ InRange(expanded, n.value.id.file)
            /\ HasNode(At(expanded, n.value.id.file), n.value.id.level, n.value.id.index)
    THEN ChainRoots(NodeAt(At(expanded, n.value.id.file), n.value.id.level,
                           n.value.id.index), steps + 1)
    ELSE {}

\* The node of the module's expanded document that the path of the last
\* find_component_origin call names.
QueryFound == scan_for_multi(At(expanded, FileOf(last.cm)), last.ids)

QueryNode == NodeAt(At(expanded, FileOf(last.cm)), QueryFound.level, QueryFound.index)

\* The path names a Class node whose base-class chain runs through Class nodes
\* and ends at class Component.
QueryNamesComponent ==
    /\ Registered(last.cm)
    /\ QueryFound.found
    /\ \E root \in ChainRoots(QueryNode, 0) : root.value.id = Component

IsPrefix(s, t) == Len(s) <= Len(t) /\ SubSeq(t, 1, Len(s)) = s

\* C16: a step of the expand_all_documents loop only appends to the error
\* list and only rewrites an expanded document whose recompile flag is set: the
\* entries already in the error list, the raw documents, dep_order, dep_graph
\* and the file-id maps are left unchanged, no expanded document is added or
\* removed, and every expanded document that is clean stays as it is (so a
\* document clean at the start of the pass is the same at its end).
C16_PassFrame ==
    [][(pc = "expand") =>
          /\ IsPrefix(errors, errors')
          /\ live_files' = live_files
          /\ dep_order' = dep_order
          /\ dep_graph' = dep_graph
          /\ file_ids' = file_ids
          /\ crate_module_to_file_id' = crate_module_to_file_id
          /\ Len(expanded') = Len(expanded)
          /\ \A f \in 0..(Len(expanded) - 1) :
                 ~At(expanded, f).recompile => At(expanded', f) = At(expanded, f)]_vars

\* A pass that was handed a list with an earlier error has rebuilt a document
\* and reported a new error, next to a document that is clean.
C16_Witness ==
    /\ pc = "expand"
    /\ pos > 1
    /\ Len(errors) >= 2
    /\ errors[1] = LiveError("earlier", TokenIdDefault)
    /\ \E f, g \in 0..(Len(expanded) - 1) :
           f # g /\ ~At(expanded, f).recompile /\ At(expanded, g).recompile

\* The crate-module a use-declaration names in a file of crate in_crate.
ImportOf(n, in_crate) == IF n.value.cm[1] = "crate" THEN <<in_crate, n.value.cm[2]>> ELSE n.value.cm

\* The crate-modules named by the use-declarations of a raw document.
UsesOf(doc, in_crate) ==
    {ImportOf(n, in_crate) : n \in {u \in Elems(Concat(doc.nodes)) : u.value.t = "Use"}}

\* A call of parse_live_file that returns.
ParseStep == pc = "idle" /\ parses' = parses + 1 /\ pc' = "idle"

\* C19: after parse_live_file of module M, dep_graph[M] is exactly the set of
\* crate-modules named by the use-declarations of the newly parsed document,
\* and the dep_graph entries of all other modules are unchanged.
C19_DepGraphRebuilt ==
    [][ParseStep =>
          /\ DOMAIN dep_graph' = DOMAIN dep_graph \cup {last'.cm}
          /\ dep_graph'[last'.cm] =
                 UsesOf(At(live_files', crate_module_to_file_id'[last'.cm]).document,
                        last'.cm[1])
          /\ \A c \in DOMAIN dep_graph \ {last'.cm} : dep_graph'[c] = dep_graph[c]]_vars

\* The module was parsed before with an import (dep_order still holds the entry
\* its use-declaration made) and its new version has none; another module has
\* imports of its own.
C19_Witness ==
    /\ pc = "idle"
    /\ last.op = "parse"
    /\ dep_graph[last.cm] = {}
    /\ \E i \in 1..Len(dep_order) :
           /\ dep_order[i].token_id.tok # 0
           /\ dep_order[i].token_id.file = FileOf(last.cm)
    /\ \E c \in DOMAIN dep_graph : c # last.cm /\ dep_graph[c] # {}

\* The positions of frame f of the stack that bind id.
BindingsIn(stack, f, id) == {i \in 1..Len(stack[f]) : stack[f][i].id = id}

\* The frames of the stack that bind id.
BindingFrames(stack, id) == {f \in 1..Len(stack) : BindingsIn(stack, f, id) # {}}

\* The binding that shadows all others: the most recent one of the innermost
\* frame that binds id.
Shadowing(stack, id) ==
    stack[SetMax(BindingFrames(stack, id))]
         [SetMax(BindingsIn(stack, SetMax(BindingFrames(stack, id)), id))]

\* C17: scope lookup of an id returns the target of the most recent binding of
\* the id in the innermost frame that binds it, and nothing only if no frame
\* binds the id.
C17_ScopeLookup ==
    (last.op = "find_item") =>
        IF BindingFrames(last.given.stack, last.given.id) = {}
        THEN ~last.ret.found
        ELSE /\ last.ret.found
             /\ last.ret.target = Shadowing(last.given.stack, last.given.id).target

\* Both frames bind the id, the inner one twice: the lookup returns the inner
\* frame's latest binding, which differs from the other two.
C17_Witness ==
    /\ last.op = "find_item"
    /\ Len(last.given.stack) = 2
    /\ BindingsIn(last.given.stack, 1, last.given.id) # {}
    /\ BindingsIn(last.given.stack, 2, last.given.id) = {1, 2}
    /\ last.ret.found
    /\ last.ret.target = last.given.stack[2][2].target
    /\ last.ret.target # last.given.stack[2][1].target
    /\ \A i \in DOMAIN last.given.stack[1] : last.ret.target # last.given.stack[1][i].target

\* The order without its entries for cm.
Without(order, cm) == LET Other(e) == e.cm # cm IN SelectSeq(order, Other)

\* The crate-modules of an order, in order.
ModulesOf(order) == [i \in DOMAIN order |-> order[i].cm]

\* C18: for a use-import of module D found while module M is registered: if D
\* is not in dep_order it is inserted immediately before M; if D is in
\* dep_order after M it is removed and re-inserted immediately before M; if D
\* is already before M, or is M, the order is unchanged; the relative order of
\* all other entries is preserved.
C18_ImportBeforeImporter ==
    (last.op = "repair") =>
        /\ Without(last.ret, last.given.cm) = Without(last.given.order, last.given.cm)
        /\ LET self_index == Position(last.given.order, last.given.own)
               other_index == Position(last.given.order, last.given.cm)
           IN  IF other_index = 0 \/ other_index > self_index
               THEN /\ Len(Without(last.ret, last.given.cm)) = Len(last.ret) - 1
                    /\ Position(last.ret, last.given.cm)
                           = Position(last.ret, last.given.own) - 1
               ELSE last.ret = last.given.order

\* The import stood after its importer with another module in between, and
\* now stands immediately before the importer.
C18_Witness ==
    /\ last.op = "repair"
    /\ Position(last.given.order, last.given.cm) > Position(last.given.order, last.given.own) + 1
    /\ Position(last.given.order, last.given.own) > 1
    /\ Position(last.ret, last.given.cm) = Position(last.ret, last.given.own) - 1
    /\ ModulesOf(last.ret) # ModulesOf(last.given.order)

\* The single id, or the head of the path, of the identifier to resolve.
HeadOf(id, multi_ids) == IF id.k = "Multi" THEN At(multi_ids, id.index) ELSE id.id

\* C20: identifier resolution never returns a pointer for an identifier whose
\* single id or path head is one of the reserved root names, even when a
\* declaration of that name is bound on the scope stack; a path headed by a
\* reserved name is an error.
C20_ReservedNeverResolved ==
    (last.op = "resolve_id" /\ HeadOf(last.given.id, ScopeDoc.multi_ids) \in ReservedNames) =>
        /\ ~last.ret.ok
        /\ ~last.ret.panic
        /\ last.given.id.k = "Multi" => last.ret.message = "Cannot use baseclass"

\* The path Component.x is resolved while Component is bound on the scope to a
\* class that has a field x: the result is an error.
C20_Witness ==
    /\ last.op = "resolve_id"
    /\ last.given.id = IdMulti(0, 2)
    /\ BindingFrames(last.given.stack, "Component") # {}
    /\ Shadowing(last.given.stack, "Component").target = ScopeLocal(LocalNodePtr(0, 0))
    /\ ~last.ret.ok

\* The nodes of a document, of all its levels.
NodesOf(doc) == Elems(Concat(doc.nodes))

\* C23: no expanded document ever contains a node whose value is a
\* use-import.
C23_NoUseInExpanded ==
    \A f \in 0..(Len(expanded) - 1) :
        \A n \in NodesOf(At(expanded, f)) : n.value.t # "Use"

\* A document with a use-declaration has been expanded into a document that
\* holds the declarations made with the import.
C23_Witness ==
    \E f \in 0..(Len(expanded) - 1) :
        /\ ~At(expanded, f).recompile
        /\ \E u \in NodesOf(At(live_files, f).document) : u.value.t = "Use"
        /\ \E n \in NodesOf(At(expanded, f)) : n.value.t = "Class" /\ n.value.id.k = "Ptr"

DependencyError(tok) == LiveError("Cannot find dependency", tok)

\* The "Cannot find dependency" errors of an error list (the lists a pass is
\* handed hold none, so these are the ones of the running pass).
DependencyErrors(errs) == {i \in 1..Len(errs) : errs[i].message = "Cannot find dependency"}

\* C28: for a crate-module of dep_order that has no registered file, a pass
\* appends exactly one "Cannot find dependency" error and walks no node (no
\* expanded document changes, nothing else is reported), and the remaining
\* entries of dep_order are still processed: the loop moves on to the next
\* entry, and a pass that has reported a missing dependency is not cut short.
C28_MissingDependency ==
    [][(pc = "expand") =>
          /\ (InLoop /\ ~Registered(Entry.cm)) =>
                 /\ errors' = Append(errors, DependencyError(Entry.token_id))
                 /\ expanded' = expanded
                 /\ pos' = pos + 1
                 /\ pc' = "expand"
          /\ (pc' = "idle") =>
                 Cardinality(DependencyErrors(errors'))
                     = Cardinality({i \in 1..Len(dep_order) : ~Registered(dep_order[i].cm)})
          /\ (pc' = "panicked") => DependencyErrors(errors') = {}]_vars

\* The entries of the open class's output that carry the second segment of the
\* Self-headed path of the last call.
SelfMatches ==
    {i \in last.given.out_start..(LevelLen(OpenDoc, last.given.out_level) - 1) :
        NodeAt(OpenDoc, last.given.out_level, i).id_pack
            = IdSingle(At(OpenDoc.multi_ids, last.given.id.index + 1))}

\* C21: a path whose first segment is Self is resolved only against the
\* output entries of the currently open class (the entries of the current
\* level from the class's output start on), never against the scope stack: it
\* resolves exactly when such an entry carries the name, to the first of them
\* as a pointer into the document being built, whatever the scope stack binds.
C21_SelfPath ==
    (last.op = "resolve_self") =>
        /\ ~last.ret.panic
        /\ last.ret.ok <=> SelfMatches # {}
        /\ last.ret.ok =>
               /\ ~last.ret.has_file
               /\ last.ret.ptr = LocalNodePtr(last.given.out_level, SetMin(SelfMatches))

\* Self.x is resolved for a class whose output starts after the entry x of
\* another class, while x is bound on the scope stack: it is not found.
C21_Witness ==
    /\ last.op = "resolve_self"
    /\ last.given.id = IdMulti(0, 2)
    /\ last.given.out_start = 2
    /\ BindingFrames(last.given.stack, "x") # {}
    /\ ~last.ret.ok

\* The positions before declaration i of the top level of raw that carry id c.
NamedBefore(raw, i, c) == {j \in 0..(i - 1) : At(At(raw.nodes, 0), j).id_pack = c}

\* The declaration or import that the base name of the top-level declaration i
\* of raw is bound to: the latest one before it (i must have one).
BaseDecl(raw, i) ==
    At(At(raw.nodes, 0), SetMax(NamedBefore(raw, i, At(At(raw.nodes, 0), i).value.id)))

\* The top-level declaration i of raw is a class form without own fields
\* whose base is a single name bound before it.
IsAliasForm(raw, i) ==
    /\ At(At(raw.nodes, 0), i).value.t = "Class"
    /\ At(At(raw.nodes, 0), i).value.count = 0
    /\ At(At(raw.nodes, 0), i).value.id.k = "Single"
    /\ ~is_baseclass(At(At(raw.nodes, 0), i).value.id)
    /\ At(At(raw.nodes, 0), i).value.id # IdSelf
    /\ NamedBefore(raw, i, At(At(raw.nodes, 0), i).value.id) # {}

\* The top-level nodes of doc that import u, a use of a single name, binds:
\* the first of that name in the expanded document of u's module.
ImportedNodes(u, exp, cm2f, in_crate) ==
    IF fetch_crate_module(u.value.cm, in_crate) \notin DOMAIN cm2f THEN {}
    ELSE LET top == At(At(exp, cm2f[fetch_crate_module(u.value.cm, in_crate)]).nodes, 0)
             hits == {j \in 0..(Len(top) - 1) : At(top, j).id_pack = u.id_pack}
         IN  IF hits = {} THEN {}
             ELSE {[node |-> At(top, SetMin(hits)),
                    doc |-> At(exp, cm2f[fetch_crate_module(u.value.cm, in_crate)])]}

\* The values that the base of the alias form i of raw resolves to, each with
\* the document it is in: the declaration of the same file (in raw), or the
\* imported node of the other module's expanded document.
AliasBases(raw, i, exp, cm2f, in_crate) ==
    IF BaseDecl(raw, i).value.t = "Use"
    THEN ImportedNodes(BaseDecl(raw, i), exp, cm2f, in_crate)
    ELSE {[node |-> BaseDecl(raw, i), doc |-> raw]}

\* n of doc is a copy of the primitive b.node of b.doc.
CopyOfValue(doc, n, b) ==
    /\ n.value.t = b.node.value.t
    /\ IF b.node.value.t = "String"
       THEN StringOf(doc, n) = StringOf(b.doc, b.node)
       ELSE n.value = b.node.value

\* C22: a class-form declaration with zero own fields whose base resolves to a
\* non-class value (a pure alias) produces no error, and the rebuilt document
\* contains a copy of the base value under the declaring id.
C22_PureAlias ==
    [][ RebuildStep =>
            LET raw == At(live_files, RebuiltFile).document
                top == At(raw.nodes, 0)
            IN  \A i \in 0..(Len(top) - 1) :
                    IsAliasForm(raw, i) =>
                        \A b \in AliasBases(raw, i, expanded, crate_module_to_file_id, Entry.cm[1]) :
                            Primitive(b.node) =>
                                /\ pc' = "expand"
                                /\ \A e \in NewErrors : e.token_id # At(top, i).token_id
                                /\ \E n \in Elems(At(At(expanded', RebuiltFile).nodes, 0)) :
                                       /\ n.id_pack = At(top, i).id_pack
                                       /\ CopyOfValue(At(expanded', RebuiltFile), n, b)
      ]_vars

\* The aliases E of the number v, G of the string t and F of the string s of
\* another file have been rebuilt without an error.
C22_Witness ==
    /\ Registered(M2) /\ Registered(M3)
    /\ RawOf(M2) = LexedFor(SrcAlias, FileOf(M2))
    /\ ~Dirty(M2)
    /\ errors = <<>>
    /\ \E e, f, g \in Elems(At(At(expanded, FileOf(M2)).nodes, 0)) :
           /\ e.id_pack = IdSingle("E") /\ e.value = VInt(1)
           /\ f.id_pack = IdSingle("F") /\ StringOf(At(expanded, FileOf(M2)), f) = <<"h", "i">>
           /\ g.id_pack = IdSingle("G") /\ StringOf(At(expanded, FileOf(M2)), g) = <<"z">>

\* The node that the last copy_recur call was given as the root of the copy.
CopiedRoot == NodeAt(CopyDoc, 0, last.given.in_index)

\* C24: the structural copy's return value reports a class exactly when the
\* copied root node is a Class value (so that a declaration with own fields
\* whose base resolves to any Class node, one whose own base is Self included,
\* is accepted as overriding a class).
C24_CopyReportsClass ==
    (last.op = "copy_recur") =>
        ((last.ret.res = "IsClass") <=> (CopiedRoot.value.t = "Class"))

\* The document the last copy_recur call copied into, before and after.
CopyBefore == CopyCtx(last.given.ext).out

CopyAfter == last.ret.ctx.out

\* The function and variable-definition nodes that the copy has added.
CopiedBodies ==
    {n \in UNION {{NodeAt(CopyAfter, l, i) :
                      i \in LevelLen(CopyBefore, l)..(LevelLen(CopyAfter, l) - 1)} :
                  l \in 0..(Len(CopyAfter.nodes) - 1)} :
        n.value.t \in {"Fn", "VarDef"}}

\* The node of the source document that n is the copy of.
SourceOf(n) == CHOOSE m \in NodesOf(CopyDoc) : m.token_id = n.token_id

\* A captured scope entry as seen from another document: a local pointer
\* carries the file of the document it was captured in.
Remote(item, f) ==
    IF item.target.full THEN item
    ELSE [id |-> item.id,
          target |-> [full |-> TRUE, file |-> f, level |-> item.target.level,
                      index |-> item.target.index]]

\* C25: when a function or variable-definition body is copied from another
\* document, its tokens are appended to the destination token table and its
\* captured scope entries to the destination scope table, in order and in
\* number, a local pointer becoming a full pointer with the source file's
\* identity and a full pointer staying as it is; a copy within one document
\* reuses the token and scope spans and leaves both tables as they are.
C25_BodyCopy ==
    (last.op = "copy_recur") =>
        /\ ~last.ret.ctx.panic
        /\ IsPrefix(CopyBefore.tokens, CopyAfter.tokens)
        /\ IsPrefix(CopyBefore.scopes, CopyAfter.scopes)
        /\ ~last.given.ext =>
               /\ CopyAfter.tokens = CopyBefore.tokens
               /\ CopyAfter.scopes = CopyBefore.scopes
        /\ \A n \in CopiedBodies :
               /\ n.value.t = SourceOf(n).value.t
               /\ n.value.count = SourceOf(n).value.count
               /\ n.value.scount = SourceOf(n).value.scount
               /\ IF last.given.ext
                  THEN /\ n.value.start >= Len(CopyBefore.tokens)
                       /\ n.value.sstart >= Len(CopyBefore.scopes)
                       /\ n.value.start + n.value.count <= Len(CopyAfter.tokens)
                       /\ n.value.sstart + n.value.scount <= Len(CopyAfter.scopes)
                       /\ \A j \in 1..n.value.count :
                              CopyAfter.tokens[n.value.start + j]
                                  = CopyDoc.tokens[SourceOf(n).value.start + j]
                       /\ \A j \in 1..n.value.scount :
                              CopyAfter.scopes[n.value.sstart + j]
                                  = Remote(CopyDoc.scopes[SourceOf(n).value.sstart + j], 0)
                  ELSE /\ n.value.start = SourceOf(n).value.start
                       /\ n.value.sstart = SourceOf(n).value.sstart

\* The variable definition h, which captured q of file 2 and n of its own
\* file 0, has been copied into another document: its scope entries follow the
\* destination's own, n as a full pointer into file 0.
C25_Witness ==
    /\ last.op = "copy_recur"
    /\ last.given.ext
    /\ CopiedRoot.value.t = "VarDef"
    /\ CopyAfter.scopes = <<LiveScopeItem("u", ScopeLocal(LocalNodePtr(0, 0))),
                            LiveScopeItem("q", ScopeFull(2, LocalNodePtr(0, 0))),
                            LiveScopeItem("n", ScopeFull(0, LocalNodePtr(0, 0)))>>
    /\ Len(CopyAfter.tokens) = Len(CopyBefore.tokens) + 3

\* The positions of the own fields of the class declaration r of raw (at the
\* top level) that assign the field id.
Assignments(raw, r, id) == {j \in 1..r.value.count : Fields(raw, 0, r)[j].id_pack = id}

\* C26: within one class declaration, assigning the same field id twice is not
\* an error, and the value of that field in the expanded class is the one
\* written last: the rebuilt class has the field, and with no other value.
C26_LastWriteWins ==
    [][ RebuildStep =>
            LET raw == At(live_files, RebuiltFile).document
                doc == At(expanded', RebuiltFile)
            IN  \A r \in Elems(At(raw.nodes, 0)) :
                \A d \in Elems(At(doc.nodes, 0)) :
                    (r.value.t = "Class" /\ d.value.t = "Class" /\ d.token_id = r.token_id) =>
                        \A j \in 1..r.value.count :
                            LET own == Fields(raw, 0, r)[j]
                                all == Assignments(raw, r, own.id_pack)
                            IN  (Cardinality(all) > 1 /\ Primitive(own)) =>
                                    /\ \A e \in NewErrors : e.token_id # own.token_id
                                    /\ \E c \in Elems(Fields(doc, 0, d)) : c.id_pack = own.id_pack
                                    /\ \A c \in Elems(Fields(doc, 0, d)) :
                                           c.id_pack = own.id_pack =>
                                               c.value = Fields(raw, 0, r)[SetMax(all)].value
      ]_vars

\* The declaration a recorded walk_node call walked.
Walked == NodeAt(WalkIn, 0, last.given.in_index)

\* The number of segments of the id of a declaration.
Segments(node) == IF node.id_pack.k = "Multi" THEN node.id_pack.count ELSE 1

\* The levels of doc that hold a node lexed at one of the tokens toks.
LevelsOf(doc, toks) ==
    {l \in 0..(Len(doc.nodes) - 1) : \E n \in Elems(At(doc.nodes, l)) : n.token_id \in toks}

\* A recorded walk_node call walked the children of a declaration with a child span.
WalkedChildren ==
    /\ last.op = "walk_node"
    /\ Walked.value.t \in {"Object", "Array", "Class", "Call"}
    /\ Walked.value.count > 0
    /\ ~last.ret.panic
    /\ \A e \in Elems(last.ret.errors) : e.token_id # Walked.token_id

\* C27: a declaration with a child span that is walked at output level L and
\* whose id has n segments (n = 1 for a single id) has its children written at
\* output level L + n, and nowhere else.
C27_ChildrenLevel ==
    WalkedChildren =>
        LevelsOf(last.ret.out, {c.token_id : c \in Elems(Fields(WalkIn, 0, Walked))})
            = {last.given.out_level + Segments(Walked)}

\* C29: walk_node returns with the scope stack holding as many frames as it had
\* on entry, on every path, the error returns of a class declaration included.
C29_StackDepthKept ==
    (last.op = "walk_node" /\ ~last.ret.panic) =>
        Len(last.ret.stack) = Len(WalkStack(last.given.out_level))

RECURSIVE ChainCycles(_, _)
\* The chain of base-class pointers from the class id comes back to a pointer
\* it has passed: seen holds the pointers passed so far.
ChainCycles(id, seen) ==
    IF id.k # "Ptr" THEN FALSE
    ELSE IF id \in seen THEN TRUE
    ELSE IF ~InRange(expanded, id.file) THEN FALSE
    ELSE IF ~HasNode(At(expanded, id.file), id.level, id.index) THEN FALSE
    ELSE IF NodeAt(At(expanded, id.file), id.level, id.index).value.t # "Class" THEN FALSE
    ELSE ChainCycles(NodeAt(At(expanded, id.file), id.level, id.index).value.id,
                     seen \cup {id})

\* C30: the chain of base-class pointers starting at any Class node of an
\* expanded document is acyclic: it never comes back to a node it has passed,
\* so the chain walks of find_base_class_id and find_component_origin end.
C30_BaseChainAcyclic ==
    \A f \in 0..(Len(expanded) - 1) :
        \A n \in NodesOf(At(expanded, f)) :
            n.value.t = "Class" => ~ChainCycles(n.value.id, {})

\* The node of UseDoc that the path of a recorded use-declaration names: every
\* segment found in order, each but the last naming a class.
UseTarget == scan_for_multi(UseDoc, last.given.path)

\* C31: a use-import with a multi-segment path binds a name only if every
\* segment of the path was found in order inside the imported document; then it
\* binds the last segment to the node found, with no error. When a segment is
\* not found, exactly one error is recorded and nothing is bound.
C31_UsePath ==
    (last.op = "use" /\ ~last.ret.panic) =>
        IF UseTarget.found
        THEN /\ last.ret.errors = <<>>
             /\ last.ret.stack =
                    << <<LiveScopeItem(last.given.path[Len(last.given.path)],
                                       ScopeFull(0, LocalNodePtr(UseTarget.level,
                                                                 UseTarget.index)))>> >>
        ELSE /\ Len(last.ret.errors) = 1
             /\ last.ret.stack = << <<>> >>

\* The crate-modules of the entries of dep_order.
Ordered == {dep_order[i].cm : i \in 1..Len(dep_order)}

\* The crate-modules named by a use-declaration of a parsed document.
NamedModules ==
    UNION {UsesOf(live_files[i].document, live_files[i].crate_module[1]) :
               i \in 1..Len(live_files)}

Imported == UNION {dep_graph[c] : c \in DOMAIN dep_graph}

\* C33: a pass reports a missing dependency only for a crate-module that is in
\* some current dep_graph set: once the only module that imported an
\* unregistered crate-module X is re-parsed without that import, later passes
\* report no "Cannot find dependency" for X.
C33_NoStaleDependency ==
    [][(InLoop /\ \E e \in NewErrors : e.message = "Cannot find dependency")
           => Entry.cm \in Imported]_vars

\* No two entries of the run [start, start + count) of `level` in doc carry the
\* same single id.
DistinctIds(doc, level, start, count) ==
    \A i, j \in start..(start + count - 1) :
        (/\ i < j
         /\ HasNode(doc, level, i)
         /\ HasNode(doc, level, j)
         /\ NodeAt(doc, level, i).id_pack.k = "Single")
            => NodeAt(doc, level, i).id_pack # NodeAt(doc, level, j).id_pack

\* C34: in every expanded document, no two top-level entries and no two entries
\* of the child span of one class carry the same single id: a repeated
\* declaration of an id results in one entry, not two.
C34_OneEntryPerId ==
    \A f \in 0..(Len(expanded) - 1) :
        ~At(expanded, f).recompile =>
            /\ DistinctIds(At(expanded, f), 0, 0, LevelLen(At(expanded, f), 0))
            /\ \A l \in 0..(Len(At(expanded, f).nodes) - 1) :
                   \A n \in Elems(At(At(expanded, f).nodes, l)) :
                       n.value.t = "Class" =>
                           DistinctIds(At(expanded, f), l + 1, n.value.start, n.value.count)

\* The top-level declaration i of raw was written to the output of this step
\* (the output has a top-level entry of its id) and no error was recorded for it.
WrittenClean(raw, doc, i) ==
    /\ \E d \in Elems(At(doc.nodes, 0)) : d.id_pack = At(At(raw.nodes, 0), i).id_pack
    /\ \A e \in NewErrors : e.token_id # At(At(raw.nodes, 0), i).token_id

\* The top-level declaration j of raw refers to the single id of declaration i
\* before it (as its value or as its base), i being the one declaration of
\* that id before j.
RefersTo(raw, j, i) ==
    /\ i < j
    /\ At(At(raw.nodes, 0), i).id_pack.k = "Single"
    /\ At(At(raw.nodes, 0), j).value.t \in {"IdPack", "Class"}
    /\ At(At(raw.nodes, 0), j).value.id = At(At(raw.nodes, 0), i).id_pack
    /\ \A k \in 0..(j - 1) :
           k # i => At(At(raw.nodes, 0), k).id_pack # At(At(raw.nodes, 0), i).id_pack

\* C35: every top-level declaration with a single id that expansion writes to
\* the output without recording an error is bound in the module scope frame: a
\* later top-level sibling that refers to the id finds it on the scope. This
\* includes a zero-field alias of a non-class value.
C35_WrittenIsBound ==
    [][ RebuildStep =>
            \A i, j \in 0..(Len(At(At(live_files, RebuiltFile).document.nodes, 0)) - 1) :
                (/\ RefersTo(At(live_files, RebuiltFile).document, j, i)
                 /\ WrittenClean(At(live_files, RebuiltFile).document,
                                 At(expanded', RebuiltFile), i))
                    => \A e \in NewErrors :
                           ~(/\ e.token_id = At(At(At(live_files, RebuiltFile).document.nodes,
                                                   0), j).token_id
                             /\ e.message = "Cannot find item on scope")
      ]_vars

\* The Fn or VarDef node a recorded capture wrote: the last entry of its level.
CapturedNode ==
    NodeAt(last.ret.out, Len(last.given.stack) - 1,
           LevelLen(last.ret.out, Len(last.given.stack) - 1) - 1)

\* The scope span of the node: scope_count entries of out_doc.scopes from scope_start.
CapturedSpan ==
    SubSeq(last.ret.out.scopes, CapturedNode.value.sstart + 1,
           CapturedNode.value.sstart + CapturedNode.value.scount)

\* The lookup of id in a span by a scan from its last entry to its first.
SpanLookup(span, id) ==
    IF \E k \in 1..Len(span) : span[k].id = id
    THEN [found |-> TRUE, target |-> span[SetMax({k \in 1..Len(span) : span[k].id = id})].target]
    ELSE [found |-> FALSE, target |-> ScopeLocal(LocalNodePtr(0, 0))]

\* C38: the scope span captured on an expanded Fn or VarDef node is the whole
\* scope stack at the point of declaration, flattened outermost frame first:
\* the lookup of any id in the span, scanning from its last entry to its first,
\* returns the target the scope-stack lookup returns at that point.
C38_CapturedScope ==
    (last.op = "capture" /\ ~last.ret.panic) =>
        /\ CapturedNode.value.t \in {"Fn", "VarDef"}
        /\ CapturedSpan = Concat(last.given.stack)
        /\ \A id \in {"a", "b", "c"} :
               SpanLookup(CapturedSpan, id) = find_item(last.given.stack, id)

\* Both frames of the stack bind a, to different targets, and the capture
\* follows an earlier one: the span starts after the entries already there.
C38_Witness ==
    /\ last.op = "capture"
    /\ ~last.ret.panic
    /\ Len(last.given.stack) = 2
    /\ CapturedNode.value.t = "VarDef"
    /\ CapturedNode.value.sstart = 1
    /\ CapturedNode.value.scount = 4
    /\ BindingsIn(last.given.stack, 1, "a") # {}
    /\ BindingsIn(last.given.stack, 2, "a") # {}
    /\ find_item(<<last.given.stack[1]>>, "a") # find_item(last.given.stack, "a")

FoldsDisjoint ==
    /\ session.folding_lines \cap session.folded_lines = {}
    /\ session.folding_lines \cap session.unfolding_lines = {}
    /\ session.folded_lines \cap session.unfolding_lines = {}

FoldsSettled == session.folding_lines = {} /\ session.unfolding_lines = {}

\* C36: after any sequence of fold, unfold and update_folds calls the sets
\* folding_lines, folded_lines and unfolding_lines are pairwise disjoint;
\* update_folds returns false exactly when folding_lines and unfolding_lines
\* are empty; and unless fold or unfold is called again and again, the repeated
\* update_folds calls empty the two sets for good.
C36_FoldSets ==
    /\ [](FoldsDisjoint /\ (session.ret = "false" => FoldsSettled))
    /\ ([]<><<Fold \/ Unfold>>_vars) \/ <>[]FoldsSettled

\* update_folds has returned false after it folded a line all the way: the
\* line is in folded_lines at scale 0.1 and the other two sets are empty.
C36_Witness ==
    /\ session.ret = "false"
    /\ FoldsSettled
    /\ \E line \in session.folded_lines : session.scale[line + 1] = ScaleFolded

\* The line indexes the session keeps in its three fold sets.
FoldLines == session.folding_lines \cup session.folded_lines \cup session.unfolding_lines

\* C37: after any interleaving of fold, unfold, update_folds and applied edits
\* (inserts and deletes of whole lines) every line index in folding_lines,
\* folded_lines and unfolding_lines is smaller than the line count, and
\* column_count, fold_column, scale and wrap_data have one entry per line.
C37_FoldLinesInText ==
    /\ \A line \in FoldLines : line < Len(session.lines)
    /\ Len(session.column_count) = Len(session.lines)
    /\ Len(session.fold_column) = Len(session.lines)
    /\ Len(session.scale) = Len(session.lines)
    /\ Len(session.wrap_data) = Len(session.lines)

====
